---- MODULE Spec2Model ----
(***************************************************************************)
(* A model of the reduce and bin stages of dandi_s3_log_parser:           *)
(*   - BufferedTextReader       (_buffered_text_reader.py)                 *)
(*   - the two line reducers    (_s3_log_file_reducer.py)                  *)
(*   - reduce_raw_s3_log        (_s3_log_file_reducer.py)                  *)
(*   - reduce_all_dandi_raw_s3_logs (_dandi_s3_log_file_reducer.py)        *)
(*   - bin_all_reduced_s3_logs_by_object_key                               *)
(*                     (_bin_all_reduced_s3_logs_by_object_key.py)         *)
(* Text is modelled as sequences of one-character strings, so that         *)
(* splitting, tokenizing and formatting are computed character by          *)
(* character as the code computes them.                                    *)
(***************************************************************************)
EXTENDS Integers, Sequences, FiniteSets, TLC

VARIABLES
    \* ---- BufferedTextReader
    file_bytes,                     \* the bytes of the file at file_path
    maximum_buffer_size_in_bytes,   \* constructor argument M
    buffer_size_in_bytes,           \* self.buffer_size_in_bytes
    total_file_size,                \* self.total_file_size
    number_of_buffers,              \* self.number_of_buffers
    offset,                         \* self.offset
    rd_status,                      \* "off" | "iterating" | "StopIteration" | "ValueError" | "UnicodeDecodeError"
    rd_returned,                    \* concatenation of the lists returned so far
    rd_batches,                     \* the lists returned so far, in order
    rd_error_offset,                \* the offset named by the ValueError message, or -1
    \* ---- the diagnostic files under <base>/errors: file name -> what was written
    error_files,
    \* ---- one call of a line reducer
    ln_pc,                          \* "off" | "ready" | "done"
    ln_fields,                      \* the field values the raw line was written from
    ln_raw_s3_log_line,              \* argument: the raw line
    ln_operation_type,               \* argument: the requested operation type
    ln_excluded_ips,                 \* argument: the caller's lookup table
    ln_excluded_ips_before,         \* the lookup table as it was before the call
    ln_reducer,                     \* "fast" | "general": the reducer that was called
    ln_handler,                     \* the object_key_handler that was passed
    ln_task_id,                     \* the task_id that was passed
    ln_kind,                        \* "row" | "None" | "raise"
    ln_row,                         \* the returned row
    \* ---- one call of reduce_raw_s3_log
    fl_pc,                          \* "off" | "reading" | "open" | "write_header" | "write_lines" | "close"
                                    \* | "returned" | "raised" | "killed"
    fl_reducer,                     \* "fast" (fast_fields_case) | "general"
    fl_handler,                     \* argument: object_key_handler
    fl_excluded_ips,                \* argument: excluded_ips
    fl_task_id,                     \* task_id
    fl_reduced_s3_log_lines,        \* reduced_s3_log_lines, as far as the comprehension has come
    fl_reduced_file,                \* the file at reduced_s3_log_file_path: exists, content (lines)
    fl_io,                          \* what was written to io and is not yet in the file
    \* ---- reduce_all_dandi_raw_s3_logs
    bt_pc,                          \* "off" | "start" | "serial" | "parallel" | "merge" | "cleanup"
                                    \* | "returned" | "raised"
    bt_run,                         \* 1 for the first call over the archive, 2 for the second
    bt_raw_days,                    \* the day files <raw root>/**/<digits>.log
    bt_reduced,                     \* the *.tsv files under reduced_s3_logs_folder_path
    bt_reduced_at_start,            \* bt_reduced as it was when this call began
    bt_maximum_number_of_workers,   \* argument
    bt_raising,                     \* the day files whose reduction raises an exception
    bt_pending,                     \* the submitted tasks no process has taken yet, in order
    bt_pids,                        \* os.getpid() of each process of the pool
    bt_running,                     \* per pool process: the task it runs, its worker_index; or idle
    bt_temp,                        \* worker_index -> the *.tsv files under <task folder>/worker_<index>
    bt_merge_index,                 \* worker_index the merge loop has come to
    bt_called,                      \* the day files handed to reduce_dandi_raw_s3_log in this call
    \* ---- bin_all_reduced_s3_logs_by_object_key
    bn_pc,                          \* "off" | "ready" | "touch_completed" | "loop" | "binning" | "returned"
                                    \* | "FileNotFoundError" | "ValueError" | "killed"
    bn_calls,                       \* the number of calls made so far
    bn_file_limit,                  \* argument file_limit of the call: None, or an integer
    bn_reduced,                     \* the *.tsv files under reduced_s3_logs_folder_path: path -> rows
    bn_started,                     \* binned_log_file_paths_started.txt: exists, content (lines)
    bn_completed,                   \* binned_log_file_paths_completed.txt: exists, content (lines)
    bn_binned,                      \* the binned files: path -> lines
    bn_reduced_s3_log_files,        \* reduced_s3_log_files, as far as the loop has not come yet
    bn_reduced_s3_log_file,         \* the reduced file the loop is at
    bn_object_keys_to_data          \* object_keys_to_data, as far as the inner loop has not come yet

rdVars == <<file_bytes, maximum_buffer_size_in_bytes, buffer_size_in_bytes, total_file_size,
            number_of_buffers, offset, rd_status, rd_returned, rd_batches, rd_error_offset>>

lnVars == <<ln_pc, ln_fields, ln_raw_s3_log_line, ln_operation_type, ln_excluded_ips, ln_excluded_ips_before,
            ln_reducer, ln_handler, ln_task_id, ln_kind, ln_row>>

flVars == <<fl_pc, fl_reducer, fl_handler, fl_excluded_ips, fl_task_id, fl_reduced_s3_log_lines,
            fl_reduced_file, fl_io>>

btVars == <<bt_pc, bt_run, bt_raw_days, bt_reduced, bt_reduced_at_start, bt_maximum_number_of_workers,
            bt_raising, bt_pending, bt_pids, bt_running, bt_temp, bt_merge_index, bt_called>>

bnVars == <<bn_pc, bn_calls, bn_file_limit, bn_reduced, bn_started, bn_completed, bn_binned, bn_reduced_s3_log_files,
            bn_reduced_s3_log_file, bn_object_keys_to_data>>

vars == <<rdVars, error_files, lnVars, flVars, btVars, bnVars>>

(***************************************************************************)
(* Bounds                                                                  *)
(***************************************************************************)
MaxFileLen == 5         \* longest file content, in bytes, of the reader model
MaxBufferBytes == 4     \* largest read size B = floor(M / 3) of the reader model
MaxFileLines == 2       \* most lines of a raw file of the file model

(***************************************************************************)
(* Generic sequence helpers                                                *)
(***************************************************************************)
RECURSIVE SeqsUpTo(_, _)
SeqsUpTo(S, n) ==
    IF n = 0 THEN {<<>>}
    ELSE LET shorter == SeqsUpTo(S, n - 1)
         IN shorter \cup {Append(s, x) : s \in {t \in shorter : Len(t) = n - 1}, x \in S}

RECURSIVE Flatten(_)
Flatten(ss) == IF ss = <<>> THEN <<>> ELSE Head(ss) \o Flatten(Tail(ss))

\* the elements of a finite set of integers, in increasing order
RECURSIVE SortedSeq(_)
SortedSeq(S) ==
    IF S = {} THEN <<>>
    ELSE LET least == CHOOSE x \in S : \A y \in S : x <= y
         IN <<least>> \o SortedSeq(S \ {least})

\* name a value once and use it in what follows
With(value, Then(_)) == Then(value)

Last(s) == s[Len(s)]
Front(s) == SubSeq(s, 1, Len(s) - 1)

\* python: s[i:] and s[:i] with 0-based i, 0 <= i
DropFirst(s, i) == SubSeq(s, i + 1, Len(s))
TakeFirst(s, i) == SubSeq(s, 1, IF i < Len(s) THEN i ELSE Len(s))

(***************************************************************************)
(* Bytes and text.  A file is a sequence of bytes.  The bytes "c3" "a9"    *)
(* are the two-byte UTF-8 encoding of the character "e'"; every other byte *)
(* is an ASCII character of the same name.                                 *)
(***************************************************************************)
LF == "\n"
CR == "\r"
LeadByte == "c3"
ContByte == "a9"
WideChar == "e'"

ReaderBytes == {"a", LF, CR, LeadByte, ContByte}

\* bytes.decode(): strict UTF-8; ok = FALSE stands for UnicodeDecodeError
decode(bs) ==
    LET kept == SelectSeq(bs, LAMBDA b : b # ContByte)
    IN [ok |-> \A i \in 1 .. Len(bs) :
                 /\ bs[i] = LeadByte => (i < Len(bs) /\ bs[i + 1] = ContByte)
                 /\ bs[i] = ContByte => (i > 1 /\ bs[i - 1] = LeadByte),
        s |-> [i \in 1 .. Len(kept) |-> IF kept[i] = LeadByte THEN WideChar ELSE kept[i]]]

\* len(s.encode("utf-8"))
encoded_length(s) == Len(s) + Len(SelectSeq(s, LAMBDA c : c = WideChar))

\* str.splitlines(): lines end at "\n", "\r" or "\r\n"; no empty piece after
\* a final terminator.
splitlines(s) ==
    LET ends == SortedSeq({i \in 1 .. Len(s) :
                             \/ s[i] = LF
                             \/ (s[i] = CR /\ ~(i < Len(s) /\ s[i + 1] = LF))})
        n == Len(ends)
        first(k) == IF k = 1 THEN 1 ELSE ends[k - 1] + 1
        last(k) == IF s[ends[k]] = LF /\ ends[k] > 1 /\ s[ends[k] - 1] = CR
                   THEN ends[k] - 2 ELSE ends[k] - 1
        terminated == [k \in 1 .. n |-> SubSeq(s, first(k), last(k))]
    IN IF first(n + 1) <= Len(s)
       THEN Append(terminated, SubSeq(s, first(n + 1), Len(s)))
       ELSE terminated

\* str.endswith("\n")
endswith_newline(s) == s # <<>> /\ Last(s) = LF

\* the contents a text file can have: valid UTF-8
ReaderFiles == {bs \in SeqsUpTo(ReaderBytes, MaxFileLen) : decode(bs).ok}

LineIdle ==
    /\ ln_pc = "off"
    /\ ln_fields = <<>>
    /\ ln_raw_s3_log_line = <<>>
    /\ ln_operation_type = <<>>
    /\ ln_excluded_ips = <<>>
    /\ ln_excluded_ips_before = <<>>
    /\ ln_reducer = "none"
    /\ ln_handler = "none"
    /\ ln_task_id = "None"
    /\ ln_kind = "none"
    /\ ln_row = <<>>

AbsentFile == [exists |-> FALSE, content |-> <<>>]

BinIdle ==
    /\ bn_pc = "off"
    /\ bn_calls = 0
    /\ bn_file_limit = [is_none |-> TRUE, value |-> 0]
    /\ bn_reduced = <<>>
    /\ bn_started = AbsentFile
    /\ bn_completed = AbsentFile
    /\ bn_binned = <<>>
    /\ bn_reduced_s3_log_files = <<>>
    /\ bn_reduced_s3_log_file = "none"
    /\ bn_object_keys_to_data = <<>>

BatchIdle ==
    /\ bt_pc = "off"
    /\ bt_run = 0
    /\ bt_raw_days = {}
    /\ bt_reduced = <<>>
    /\ bt_reduced_at_start = <<>>
    /\ bt_maximum_number_of_workers = 0
    /\ bt_raising = {}
    /\ bt_pending = <<>>
    /\ bt_pids = <<>>
    /\ bt_running = <<>>
    /\ bt_temp = <<>>
    /\ bt_merge_index = 0
    /\ bt_called = {}

FileIdle ==
    /\ fl_pc = "off"
    /\ fl_reducer = "none"
    /\ fl_handler = "none"
    /\ fl_excluded_ips = <<>>
    /\ fl_task_id = "None"
    /\ fl_reduced_s3_log_lines = <<>>
    /\ fl_reduced_file = AbsentFile
    /\ fl_io = <<>>

(***************************************************************************)
(* BufferedTextReader                                                      *)
(***************************************************************************)
ReaderIdle ==
    /\ file_bytes = <<>>
    /\ maximum_buffer_size_in_bytes = 0
    /\ buffer_size_in_bytes = 0
    /\ total_file_size = 0
    /\ number_of_buffers = 0
    /\ offset = 0
    /\ rd_status = "off"
    /\ rd_returned = <<>>
    /\ rd_batches = <<>>
    /\ rd_error_offset = -1

\* BufferedTextReader.__init__
BufferedTextReader_init(bytes, M) ==
    /\ file_bytes = bytes
    /\ maximum_buffer_size_in_bytes = M
    /\ buffer_size_in_bytes = M \div 3
    /\ total_file_size = Len(bytes)
    /\ number_of_buffers = (Len(bytes) \div (M \div 3)) + 1
    /\ offset = 0
    /\ rd_status = "iterating"
    /\ rd_returned = <<>>
    /\ rd_batches = <<>>
    /\ rd_error_offset = -1

\* a read that never seeks: the first bytes of the file every time
intermediate_bytes_unseeked == TakeFirst(file_bytes, buffer_size_in_bytes)

\* io.seek(self.offset); io.read(self.buffer_size_in_bytes)
intermediate_bytes == TakeFirst(DropFirst(file_bytes, offset), buffer_size_in_bytes)

ReturnBatch(batch, new_offset) ==
    /\ offset' = new_offset
    /\ rd_returned' = rd_returned \o batch
    /\ rd_batches' = Append(rd_batches, batch)
    /\ rd_status' = "iterating"
    /\ UNCHANGED rd_error_offset

\* an error that names the start of the file whatever the offset
RaiseFromNext_naming_file_start(kind, named_offset) ==
    /\ rd_status' = kind
    /\ rd_error_offset' = (IF named_offset = -1 THEN -1 ELSE 0)
    /\ UNCHANGED <<offset, rd_returned, rd_batches>>

RaiseFromNext(kind, named_offset) ==
    /\ rd_status' = kind
    /\ rd_error_offset' = named_offset
    /\ UNCHANGED <<offset, rd_returned, rd_batches>>

\* BufferedTextReader.__next__; it can be called again after it has raised,
\* the object being as the raising call left it
BufferedTextReader_next ==
    /\ rd_status # "off"
    /\ UNCHANGED <<file_bytes, maximum_buffer_size_in_bytes, buffer_size_in_bytes,
                   total_file_size, number_of_buffers>>
    /\ IF offset >= total_file_size
       THEN RaiseFromNext("StopIteration", -1)
       ELSE LET decoded == decode(intermediate_bytes)
                split_intermediate_buffer == splitlines(decoded.s)
            IN IF ~decoded.ok
               THEN RaiseFromNext("UnicodeDecodeError", -1)
               ELSE IF Len(intermediate_bytes) < buffer_size_in_bytes
                    THEN ReturnBatch(split_intermediate_buffer, total_file_size)
                    ELSE LET buffer == Front(split_intermediate_buffer)
                             last_line == Last(split_intermediate_buffer)
                         IN IF Len(buffer) = 0 /\ last_line # <<>>
                            THEN RaiseFromNext("ValueError", offset)
                            ELSE IF endswith_newline(decoded.s)
                                 THEN ReturnBatch(buffer, offset + buffer_size_in_bytes)
                                 ELSE ReturnBatch(buffer, offset + buffer_size_in_bytes
                                                          - encoded_length(last_line))

ReaderInit ==
    /\ \E bytes \in ReaderFiles, M \in 3 .. (3 * MaxBufferBytes) :
          BufferedTextReader_init(bytes, M)
    /\ error_files = <<>>
    /\ LineIdle
    /\ FileIdle
    /\ BatchIdle
    /\ BinIdle

ReaderNext == BufferedTextReader_next /\ UNCHANGED <<error_files, lnVars, flVars, btVars, bnVars>>

SpecReader == ReaderInit /\ [][ReaderNext]_vars

(***************************************************************************)
(* Text helpers of the line parser and the line reducers                   *)
(***************************************************************************)
\* a string literal as a sequence of one-character strings
Chars(str) == [i \in 1 .. Len(str) |-> SubSeq(str, i, i)]

SPACE == " "
QUOTE == "\""
TAB == "\t"
Digits == {"0", "1", "2", "3", "4", "5", "6", "7", "8", "9"}
DigitValue(c) == CASE c = "0" -> 0 [] c = "1" -> 1 [] c = "2" -> 2 [] c = "3" -> 3 [] c = "4" -> 4
                   [] c = "5" -> 5 [] c = "6" -> 6 [] c = "7" -> 7 [] c = "8" -> 8 [] c = "9" -> 9
DigitChar(n) == CASE n = 0 -> "0" [] n = 1 -> "1" [] n = 2 -> "2" [] n = 3 -> "3" [] n = 4 -> "4"
                  [] n = 5 -> "5" [] n = 6 -> "6" [] n = 7 -> "7" [] n = 8 -> "8" [] n = 9 -> "9"

IsPrefix(p, s) == Len(p) <= Len(s) /\ SubSeq(s, 1, Len(p)) = p

\* python: s[-n:] and s[:-n]
LastChars(s, n) == IF Len(s) <= n THEN s ELSE SubSeq(s, Len(s) - n + 1, Len(s))
DropLastChars(s, n) == IF Len(s) <= n THEN <<>> ELSE SubSeq(s, 1, Len(s) - n)

\* str.split(sep) for a separator that cannot overlap itself (" ", "/" and
\* quote-space are such): every occurrence of sep, empty pieces kept
split(s, sep) ==
    With(SortedSeq({i \in 1 .. (Len(s) - Len(sep) + 1) : SubSeq(s, i, i + Len(sep) - 1) = sep}),
         LAMBDA at :
           [k \in 1 .. (Len(at) + 1) |->
              SubSeq(s, IF k = 1 THEN 1 ELSE at[k - 1] + Len(sep),
                     IF k = Len(at) + 1 THEN Len(s) ELSE at[k] - 1)])

\* sep.join(parts)
RECURSIVE join(_, _)
join(parts, sep) ==
    IF parts = <<>> THEN <<>>
    ELSE IF Len(parts) = 1 THEN Head(parts)
         ELSE Head(parts) \o sep \o join(Tail(parts), sep)

\* str.isdigit() on ASCII text
isdigit(s) == s # <<>> /\ \A i \in 1 .. Len(s) : s[i] \in Digits

\* int(s): an optional sign and decimal digits; ok = FALSE stands for ValueError
RECURSIVE digits_value(_, _)
digits_value(s, acc) ==
    IF s = <<>> THEN acc ELSE digits_value(Tail(s), 10 * acc + DigitValue(Head(s)))

int_of(s) ==
    IF isdigit(s) THEN [ok |-> TRUE, n |-> digits_value(s, 0)]
    ELSE IF Len(s) >= 2 /\ Head(s) \in {"-", "+"} /\ isdigit(Tail(s))
         THEN [ok |-> TRUE, n |-> (IF Head(s) = "-" THEN -1 ELSE 1) * digits_value(Tail(s), 0)]
         ELSE [ok |-> FALSE, n |-> 0]

\* f"{n}" for an integer n
RECURSIVE nat_str(_)
nat_str(n) == IF n < 10 THEN <<DigitChar(n)>> ELSE Append(nat_str(n \div 10), DigitChar(n % 10))

int_str(n) == IF n < 0 THEN <<"-">> \o nat_str(-n) ELSE nat_str(n)

\* least index i >= from with s[i] = c (want = TRUE) or s[i] # c (want = FALSE), or 0
first_index(s, c, from, want) ==
    LET hits == {i \in from .. Len(s) : (s[i] = c) = want}
    IN IF hits = {} THEN 0 ELSE CHOOSE i \in hits : \A j \in hits : i <= j

(***************************************************************************)
(* _s3_log_line_parser.py                                                  *)
(***************************************************************************)
\* [a or b or c for a, b, c in _S3_LOG_REGEX.findall(string)] with
\* _S3_LOG_REGEX = "([^"]+)"|\[([^]]+)]|([^ ]+)
least_above(S, from) ==
    LET hits == {i \in S : i >= from}
    IN IF hits = {} THEN 0 ELSE CHOOSE i \in hits : \A j \in hits : i <= j

RECURSIVE S3_LOG_REGEX_findall_at(_, _, _, _, _, _)
S3_LOG_REGEX_findall_at(s, position, acc, spaces, quotes, brackets) ==
    With(IF position > Len(s) THEN 0
         ELSE IF position \notin spaces THEN position
         ELSE first_index(s, SPACE, position, FALSE),    \* no alternative matches at a space
         LAMBDA p :
           IF p = 0 THEN acc
           ELSE IF s[p] = QUOTE /\ least_above(quotes, p + 1) >= p + 2
           THEN With(least_above(quotes, p + 1), LAMBDA closing_quote :
                  S3_LOG_REGEX_findall_at(s, closing_quote + 1,
                                          Append(acc, SubSeq(s, p + 1, closing_quote - 1)),
                                          spaces, quotes, brackets))
           ELSE IF s[p] = "[" /\ least_above(brackets, p + 1) >= p + 2
           THEN With(least_above(brackets, p + 1), LAMBDA closing_bracket :
                  S3_LOG_REGEX_findall_at(s, closing_bracket + 1,
                                          Append(acc, SubSeq(s, p + 1, closing_bracket - 1)),
                                          spaces, quotes, brackets))
           ELSE With(IF least_above(spaces, p) = 0 THEN Len(s) ELSE least_above(spaces, p) - 1,
                     LAMBDA run_end :
                       S3_LOG_REGEX_findall_at(s, run_end + 1, Append(acc, SubSeq(s, p, run_end)),
                                               spaces, quotes, brackets)))

S3_LOG_REGEX_findall(s) ==
    S3_LOG_REGEX_findall_at(s, 1, <<>>, {i \in 1 .. Len(s) : s[i] = SPACE},
                            {i \in 1 .. Len(s) : s[i] = QUOTE}, {i \in 1 .. Len(s) : s[i] = "]"})

max_iter == 1000000

\* _find_all_possible_substring_indices: 0-based indices of every occurrence
\* of substring, overlapping ones included; ok = FALSE stands for the
\* StopIteration raised when start reaches max_iter
RECURSIVE find_indices_from(_, _, _, _)
find_indices_from(string, substring, start, indices) ==
    IF ~(start < max_iter) THEN [ok |-> FALSE, indices |-> indices]
    ELSE With({i \in start .. (Len(string) - Len(substring)) :
                 SubSeq(string, i + 1, i + Len(substring)) = substring},
              LAMBDA candidates :
                IF candidates = {} THEN [ok |-> TRUE, indices |-> indices]
                ELSE With(CHOOSE i \in candidates : \A j \in candidates : i <= j,
                          LAMBDA next_index :
                            find_indices_from(string, substring, next_index + 1,
                                              Append(indices, next_index))))

find_all_possible_substring_indices(string, substring) ==
    find_indices_from(string, substring, 0, <<>>)

\* python: raw_line[a:b] with 0-based a, b >= 0
Slice(s, a, b) == SubSeq(s, a + 1, IF b < Len(s) THEN b ELSE Len(s))

RECURSIVE cleaned_blocks(_, _, _, _, _)
cleaned_blocks(raw_line, starting, ending, counter, cleaned) ==
    IF counter >= Len(starting) - 1 THEN cleaned
    ELSE cleaned_blocks(raw_line, starting, ending, counter + 1,
                        cleaned \o <<SPACE, "-", SPACE>>
                                \o Slice(raw_line, ending[counter] + 2, starting[counter + 1]))

\* _attempt_to_remove_quotes: cleaned = TRUE with the cleaned line, or
\* cleaned = FALSE when bad_parsed_line (a list, not a string) is returned;
\* ok = FALSE when the substring search raised
attempt_to_remove_quotes(raw_line) ==
    With(find_all_possible_substring_indices(raw_line, <<SPACE, QUOTE>>), LAMBDA starting :
    With(find_all_possible_substring_indices(raw_line, <<QUOTE, SPACE>>), LAMBDA ending :
       IF ~starting.ok \/ ~ending.ok THEN [ok |-> FALSE, cleaned |-> FALSE, line |-> <<>>]
       ELSE IF Len(starting.indices) = 0 THEN [ok |-> TRUE, cleaned |-> FALSE, line |-> <<>>]
       ELSE IF Len(starting.indices) # Len(ending.indices)
            THEN [ok |-> TRUE, cleaned |-> FALSE, line |-> <<>>]
       ELSE [ok |-> TRUE, cleaned |-> TRUE,
             line |-> cleaned_blocks(raw_line, starting.indices, ending.indices, 1,
                                     Slice(raw_line, 0, starting.indices[1]))
                      \o <<SPACE, "-", SPACE>>
                      \o DropFirst(raw_line, Last(ending.indices) + 2)]))

\* _parse_s3_log_line: ok = FALSE stands for an exception (findall on the
\* list that _attempt_to_remove_quotes handed back raises TypeError)
parse_s3_log_line(raw_line) ==
    With(S3_LOG_REGEX_findall(raw_line), LAMBDA parsed_log_line :
       IF Len(parsed_log_line) <= 26 THEN [ok |-> TRUE, tokens |-> parsed_log_line]
       ELSE With(attempt_to_remove_quotes(raw_line), LAMBDA potentially_cleaned :
               IF potentially_cleaned.ok /\ potentially_cleaned.cleaned
               THEN [ok |-> TRUE, tokens |-> S3_LOG_REGEX_findall(potentially_cleaned.line)]
               ELSE [ok |-> FALSE, tokens |-> <<>>]))

\* positions of the fields of _FullLogLine that the reducers read
FieldTimestamp == 3
FieldIpAddress == 4
FieldOperation == 7
FieldObjectKey == 8
FieldHttpStatusCode == 10
FieldBytesSent == 12
FieldAccessPointArn == 25

\* a normalization that also takes a 23-item line, by padding it twice
get_full_log_line_padding_23(parsed_log_line) ==
    CASE Len(parsed_log_line) = 23 -> parsed_log_line \o <<<<"-">>, <<"-">>>>
      [] Len(parsed_log_line) = 24 -> Append(parsed_log_line, <<"-">>)
      [] Len(parsed_log_line) = 25 -> parsed_log_line
      [] Len(parsed_log_line) = 26 -> SubSeq(parsed_log_line, 1, 25)
      [] OTHER -> <<>>

\* a normalization that cuts a 26-item line at its head instead of its tail
get_full_log_line_last_25(parsed_log_line) ==
    CASE Len(parsed_log_line) = 24 -> Append(parsed_log_line, <<"-">>)
      [] Len(parsed_log_line) = 25 -> parsed_log_line
      [] Len(parsed_log_line) = 26 -> SubSeq(parsed_log_line, 2, 26)
      [] OTHER -> <<>>

\* _get_full_log_line: the 25 fields, or <<>> for None
get_full_log_line(parsed_log_line) ==
    CASE Len(parsed_log_line) = 24 -> Append(parsed_log_line, <<"-">>)
      [] Len(parsed_log_line) = 25 -> parsed_log_line
      [] Len(parsed_log_line) = 26 -> SubSeq(parsed_log_line, 1, 25)
      [] OTHER -> <<>>

(***************************************************************************)
(* _globals.py and the DANDI object-key handler                            *)
(***************************************************************************)
\* _KNOWN_OPERATION_TYPES
KNOWN_OPERATION_TYPES == {
    "REST.GET.OBJECT", "REST.PUT.OBJECT", "REST.HEAD.OBJECT", "REST.POST.OBJECT", "REST.COPY.PART",
    "REST.COPY.OBJECT_GET", "REST.DELETE.OBJECT", "REST.OPTIONS.PREFLIGHT", "BATCH.DELETE.OBJECT",
    "WEBSITE.GET.OBJECT", "REST.GET.BUCKETVERSIONS", "REST.GET.BUCKET", "REST.DELETE.OBJECT_TAGGING",
    "REST.DELETE.UPLOAD", "REST.GET.ACCELERATE", "REST.GET.ACL", "REST.GET.ANALYTICS",
    "REST.GET.BUCKETPOLICY", "REST.GET.CORS", "REST.GET.ENCRYPTION", "REST.GET.INTELLIGENT_TIERING",
    "REST.GET.INVENTORY", "REST.GET.LIFECYCLE", "REST.GET.LOCATION", "REST.GET.LOGGING_STATUS",
    "REST.GET.METRICS", "REST.GET.NOTIFICATION", "REST.GET.OBJECT_LOCK_CONFIGURATION",
    "REST.GET.OBJECT_TAGGING", "REST.GET.OWNERSHIP_CONTROLS", "REST.GET.POLICY_STATUS",
    "REST.GET.PUBLIC_ACCESS_BLOCK", "REST.GET.REPLICATION", "REST.GET.REQUEST_PAYMENT",
    "REST.GET.TAGGING", "REST.GET.UPLOAD", "REST.GET.VERSIONING", "REST.GET.WEBSITE",
    "REST.HEAD.BUCKET", "REST.POST.BUCKET", "REST.POST.MULTI_OBJECT_DELETE", "REST.POST.UPLOAD",
    "REST.POST.UPLOADS", "REST.PUT.ACL", "REST.PUT.BUCKETPOLICY", "REST.PUT.OWNERSHIP_CONTROLS",
    "REST.PUT.PART"}

KnownOperationTexts == {Chars(known) : known \in KNOWN_OPERATION_TYPES}

\* a registry that knows the object reads only
IS_OPERATION_TYPE_KNOWN_reads_only(operation) == operation = Chars("REST.GET.OBJECT")

\* a registry that answers True for every operation
IS_OPERATION_TYPE_KNOWN_every(operation) == TRUE

\* _IS_OPERATION_TYPE_KNOWN[operation], operation given as text
IS_OPERATION_TYPE_KNOWN(operation) == operation \in KnownOperationTexts

ZarrText == Chars("zarr")
BlobsText == Chars("blobs")
\* a reference timezone one hour east of UTC
UtcText_shifted == Chars("+0100")

\* the literal "+0000" the timezone is compared with
UtcText == Chars("+0000")

\* a handler that leaves the path below zarr/<id> in place
dandi_object_key_handler_whole_key(object_key) == object_key

\* the handler returned by _get_default_dandi_asset_id_handler
dandi_object_key_handler(object_key) ==
    LET split_by_slash == split(object_key, <<"/">>)
    IN IF split_by_slash[1] = ZarrText
       THEN join(TakeFirst(split_by_slash, 2), <<"/">>)
       ELSE object_key

\* object_key_handler(object_key=...): the default of reduce_raw_s3_log
\* (lambda object_key: object_key) or the DANDI handler
apply_object_key_handler(handler, object_key) ==
    IF handler = "dandi" THEN dandi_object_key_handler(object_key) ELSE object_key

(***************************************************************************)
(* datetime.datetime.strptime(text, "%d/%b/%Y:%H:%M:%S").isoformat()       *)
(* on texts of the exact shape dd/Mon/YYYY:HH:MM:SS; any other text is a   *)
(* ValueError (ok = FALSE).  The inputs of the model have this shape or    *)
(* have no date in them at all.                                            *)
(***************************************************************************)
MonthAbbreviations == <<"Jan", "Feb", "Mar", "Apr", "May", "Jun", "Jul", "Aug", "Sep", "Oct", "Nov", "Dec">>
MonthTexts == [m \in 1 .. 12 |-> Chars(MonthAbbreviations[m])]
TwoDigits(n) == <<DigitChar(n \div 10), DigitChar(n % 10)>>

\* %b: the two-digit number of the month with this abbreviation, or <<>>
MonthNumber(abbreviation) ==
    IF \E m \in 1 .. 12 : MonthTexts[m] = abbreviation
    THEN TwoDigits(CHOOSE m \in 1 .. 12 : MonthTexts[m] = abbreviation)
    ELSE <<>>

strptime_isoformat(text) ==
    LET day == SubSeq(text, 1, 2)
        month == SubSeq(text, 4, 6)
        year == SubSeq(text, 8, 11)
        hour == SubSeq(text, 13, 14)
        minute == SubSeq(text, 16, 17)
        second == SubSeq(text, 19, 20)
        well_formed ==
            /\ Len(text) = 20
            /\ text[3] = "/" /\ text[7] = "/" /\ text[12] = ":" /\ text[15] = ":" /\ text[18] = ":"
            /\ isdigit(day) /\ isdigit(year) /\ isdigit(hour) /\ isdigit(minute) /\ isdigit(second)
            /\ MonthNumber(month) # <<>>
            /\ digits_value(day, 0) \in 1 .. 31 /\ digits_value(year, 0) >= 1
            /\ digits_value(hour, 0) <= 23 /\ digits_value(minute, 0) <= 59
            /\ digits_value(second, 0) <= 61
    IN IF well_formed
       THEN [ok |-> TRUE,
             iso |-> year \o <<"-">> \o MonthNumber(month) \o <<"-">> \o day \o <<"T">>
                     \o hour \o <<":">> \o minute \o <<":">> \o second]
       ELSE [ok |-> FALSE, iso |-> <<>>]

(***************************************************************************)
(* _error_collection.py                                                    *)
(***************************************************************************)
NoTaskId == "None"

\* the name of the diagnostic file: v<version>_<date>_<error_type>_errors[_<task_id>].txt
error_collection_file_name(error_type, task_id) ==
    <<"v", "_", error_type, "_errors">> \o (IF task_id # NoTaskId THEN <<"_", task_id>> ELSE <<>>)
    \o <<".txt">>

\* _collect_error with the file opened in mode "w"
collect_error_truncating(files, error) ==
    LET name == error_collection_file_name(error.error_type, error.task_id)
        padded_message == <<error.message, "\n\n">>
    IN IF name \in DOMAIN files
       THEN [files EXCEPT ![name] = padded_message]
       ELSE files @@ (name :> padded_message)

\* _collect_error: open(mode="a"); io.write(f"{message}\n\n")
collect_error(files, error) ==
    LET name == error_collection_file_name(error.error_type, error.task_id)
        padded_message == <<error.message, "\n\n">>
    IN IF name \in DOMAIN files
       THEN [files EXCEPT ![name] = @ \o padded_message]
       ELSE files @@ (name :> padded_message)

RECURSIVE collect_errors(_, _)
collect_errors(files, errors) ==
    IF errors = <<>> THEN files
    ELSE collect_errors(collect_error(files, Head(errors)), Tail(errors))

(***************************************************************************)
(* The line reducers of _s3_log_file_reducer.py.  A reducer is an operator *)
(* from its arguments to a record: kind "row" (with the row), "None", or   *)
(* "raise" (an exception leaves the function); errors, the calls of        *)
(* _collect_error it made, in order; excluded_ips, the lookup table after  *)
(* the call (a collections.defaultdict(bool): a read of a missing key      *)
(* inserts it with the value False).                                       *)
(***************************************************************************)
defaultdict_get(table, key) == IF key \in DOMAIN table THEN table[key] ELSE FALSE
defaultdict_after_get(table, key) == IF key \in DOMAIN table THEN table ELSE table @@ (key :> FALSE)

Outcome(kind, row, errors, table) ==
    [kind |-> kind, row |-> row, errors |-> errors, excluded_ips |-> table]

Error(message, error_type, task_id) ==
    [message |-> message, error_type |-> error_type, task_id |-> task_id]

\* _get_full_log_line, the deviant entry: a line that is neither 24, 25 nor 26
\* items long is dumped to the line errors file of the task before None is
\* returned (the task is the one of the reducing call)
get_full_log_line_errors(parsed_log_line, raw_line, task_id) ==
    IF get_full_log_line(parsed_log_line) = <<>>
    THEN <<Error(<<"Line (parsed items)", Len(parsed_log_line), raw_line>>, "line", task_id)>>
    ELSE <<>>

\* _reduce_raw_s3_log_line
reduce_raw_s3_log_line(raw_s3_log_line, operation_type, excluded_ips, object_key_handler, task_id) ==
    With(parse_s3_log_line(raw_s3_log_line), LAMBDA parsed_s3_log_line :
    IF ~parsed_s3_log_line.ok
    THEN Outcome("None", <<>>,
                 <<Error(<<"Error parsing line", raw_s3_log_line>>, "line_reduction", task_id)>>,
                 excluded_ips)
    ELSE
    With(get_full_log_line(parsed_s3_log_line.tokens), LAMBDA full_log_line :
    IF full_log_line = <<>>
    THEN Outcome("None", <<>>,
                 get_full_log_line_errors(parsed_s3_log_line.tokens, raw_s3_log_line, task_id)
                 \o <<Error(<<"Error during parsing of line", raw_s3_log_line>>, "line", NoTaskId)>>,
                 excluded_ips)
    ELSE IF ~isdigit(full_log_line[FieldHttpStatusCode])
    THEN Outcome("None", <<>>,
                 <<Error(<<"Unexpected status code", full_log_line[FieldHttpStatusCode], raw_s3_log_line>>,
                         "line", task_id)>>,
                 excluded_ips)
    ELSE IF ~IS_OPERATION_TYPE_KNOWN(full_log_line[FieldOperation])
    THEN Outcome("None", <<>>,
                 <<Error(<<"Unexpected request type", full_log_line[FieldOperation], raw_s3_log_line>>,
                         "line", task_id)>>,
                 excluded_ips)
    ELSE
    With(IF LastChars(full_log_line[FieldTimestamp], 5) # UtcText
         THEN <<Error(<<"Unexpected time shift parsed from line", raw_s3_log_line>>, "line", task_id)>>
         ELSE <<>>,
         LAMBDA timezone_errors :
    IF full_log_line[FieldHttpStatusCode][1] # "2"
    THEN Outcome("None", <<>>, timezone_errors, excluded_ips)
    ELSE IF full_log_line[FieldOperation] # operation_type
    THEN Outcome("None", <<>>, timezone_errors, excluded_ips)
    ELSE
    With(defaultdict_after_get(excluded_ips, full_log_line[FieldIpAddress]), LAMBDA looked_up :
    IF defaultdict_get(excluded_ips, full_log_line[FieldIpAddress]) = TRUE
    THEN Outcome("None", <<>>, timezone_errors, looked_up)
    ELSE
    With(strptime_isoformat(DropLastChars(full_log_line[FieldTimestamp], 6)), LAMBDA handled_timestamp :
    With(IF full_log_line[FieldBytesSent] # <<"-">> THEN int_of(full_log_line[FieldBytesSent])
         ELSE [ok |-> TRUE, n |-> 0],
         LAMBDA handled_bytes_sent :
    IF ~handled_timestamp.ok \/ ~handled_bytes_sent.ok
    THEN Outcome("raise", <<>>, timezone_errors, looked_up)
    ELSE Outcome("row",
                 handled_timestamp.iso \o <<TAB>> \o full_log_line[FieldIpAddress] \o <<TAB>>
                 \o apply_object_key_handler(object_key_handler, full_log_line[FieldObjectKey])
                 \o <<TAB>> \o int_str(handled_bytes_sent.n) \o <<LF>>,
                 timezone_errors, looked_up)))))))

\* _fast_dandi_reduce_raw_s3_log_line
fast_dandi_reduce_raw_s3_log_line(raw_s3_log_line, operation_type, excluded_ips, task_id) ==
    With(<<Error(<<"Error during fast reduction of line", raw_s3_log_line>>, "fast_line_reduction",
                 task_id)>>,
         LAMBDA caught :
    With(split(raw_s3_log_line, <<SPACE>>), LAMBDA split_by_space :
    IF Len(split_by_space) < 5
    THEN Outcome("None", <<>>, caught, excluded_ips)
    ELSE
    With(defaultdict_after_get(excluded_ips, split_by_space[5]), LAMBDA looked_up :
    IF defaultdict_get(excluded_ips, split_by_space[5]) = TRUE
    THEN Outcome("None", <<>>, <<>>, looked_up)
    ELSE IF Len(split_by_space) < 8
    THEN Outcome("None", <<>>, caught, looked_up)
    ELSE IF split_by_space[8] # operation_type
    THEN Outcome("None", <<>>, <<>>, looked_up)
    ELSE IF Len(split_by_space) < 9
    THEN Outcome("None", <<>>, caught, looked_up)
    ELSE
    With(split(split_by_space[9], <<"/">>), LAMBDA full_object_key_split_by_slash :
    IF full_object_key_split_by_slash[1] \notin {BlobsText, ZarrText}
    THEN Outcome("None", <<>>, <<>>, looked_up)
    ELSE
    With(split(raw_s3_log_line, <<QUOTE, SPACE>>), LAMBDA split_by_quote :
    IF Len(split_by_quote) < 2
    THEN Outcome("None", <<>>, caught, looked_up)
    ELSE
    With(split(split_by_quote[2], <<SPACE>>), LAMBDA first_post_quote_block :
    IF Len(first_post_quote_block) < 3
    THEN Outcome("None", <<>>, caught, looked_up)
    ELSE IF /\ isdigit(first_post_quote_block[1])
            /\ Len(first_post_quote_block[1]) = 3
            /\ first_post_quote_block[1][1] # "2"
    THEN Outcome("None", <<>>, <<>>, looked_up)
    ELSE IF \/ Len(first_post_quote_block) # 7
            \/ ~isdigit(first_post_quote_block[1])
            \/ ~isdigit(first_post_quote_block[3])
    THEN With(reduce_raw_s3_log_line(raw_s3_log_line, operation_type, looked_up, "dandi", task_id),
              LAMBDA fallback :
                IF fallback.kind = "raise"
                THEN Outcome("None", <<>>, fallback.errors \o caught, fallback.excluded_ips)
                ELSE fallback)
    ELSE
    With(IF Len(split_by_space[3]) >= 1 /\ Head(split_by_space[3]) = "["
         THEN strptime_isoformat(Tail(split_by_space[3]))
         ELSE [ok |-> FALSE, iso |-> <<>>],
         LAMBDA timestamp :
    IF ~timestamp.ok
    THEN Outcome("None", <<>>, caught, looked_up)
    ELSE Outcome("row",
                 timestamp.iso \o <<TAB>> \o split_by_space[5] \o <<TAB>>
                 \o (IF full_object_key_split_by_slash[1] = BlobsText THEN split_by_space[9]
                     ELSE join(TakeFirst(full_object_key_split_by_slash, 2), <<"/">>))
                 \o <<TAB>> \o first_post_quote_block[3] \o <<LF>>,
                 <<>>, looked_up))))))))

(***************************************************************************)
(* Raw lines.  A line is written from a record of field values in the      *)
(* layout of an S3 server access log: 25 space-separated fields, the       *)
(* timestamp in brackets, the request-URI, referrer and user agent in      *)
(* quotes.  count is the number of fields written (the access point ARN    *)
(* and the TLS version can be missing, an extra field can follow);         *)
(* quoted_uri = FALSE writes the request-URI as a bare "-".  A user agent  *)
(* with unescaped quotes inside it makes the regular expression's first    *)
(* pass find more items than fields were written; count is then the number *)
(* of items of that first pass, 27 or 28 for a line of 25 fields.          *)
(***************************************************************************)
Timestamps == {"31/Dec/2019:23:05:09", "x"}
Timezones == {"+0000", "+0100"}
IpAddresses == {"192.0.2.1", "8.8.8.8"}
ExcludedIp == "192.0.2.1"
Operations == {"REST.GET.OBJECT", "REST.PUT.OBJECT", "REST.GET.NOTATHING"}
ObjectKeys == {"blobs/a/XYZ", "zarr/ZID/0/1", "other/k"}
StatusCodes == {"200", "404", "abc", "4040"}
BytesSent == {"123", "-", "abc", "-5", "007"}
FieldCounts == {23, 24, 25, 26}
PlainUserAgent == "\"ua\""
EmbeddedQuoteUserAgents == {"\"Mozilla/5.0 (X \"Y\") Z\"", "\"M \"Y\" Z\"", "\"a \"b\" \"c\" d\""}

\* the items the first pass finds in a user agent beyond the one it should be
ExtraItems(user_agent) ==
    CASE user_agent = PlainUserAgent -> 0
      [] user_agent = "\"a \"b\" \"c\" d\"" -> 3
      [] OTHER -> 2
RequestedOperations == {"REST.GET.OBJECT", "REST.PUT.OBJECT"}
ExcludedIpTables == {[ip \in {Chars(ExcludedIp)} |-> TRUE]}
TaskIds == {"a1b2c", "d3e4f"}
LineTaskIds == {"a1b2c"}

\* lines of 25 fields that pass every validation and filter but for the
\* quotes inside their user agent
EmbeddedQuoteFields ==
    {[timestamp |-> "31/Dec/2019:23:05:09", timezone |-> "+0000", ip_address |-> ip_address,
      operation |-> "REST.GET.OBJECT", object_key |-> object_key, quoted_uri |-> quoted_uri,
      http_status_code |-> "200", bytes_sent |-> bytes_sent, count |-> 25 + ExtraItems(user_agent),
      user_agent |-> user_agent] :
        ip_address \in IpAddresses, object_key \in ObjectKeys, quoted_uri \in BOOLEAN,
        bytes_sent \in {"123", "-"}, user_agent \in EmbeddedQuoteUserAgents}

LineFields ==
    [timestamp : Timestamps, timezone : Timezones, ip_address : IpAddresses, operation : Operations,
     object_key : ObjectKeys, quoted_uri : BOOLEAN, http_status_code : StatusCodes,
     bytes_sent : BytesSent, count : FieldCounts, user_agent : {PlainUserAgent}]
    \cup EmbeddedQuoteFields

RawLine(f) ==
    LET fields == <<"o", "b", "[" \o f.timestamp, f.timezone \o "]", f.ip_address, "-", "r",
                    f.operation, f.object_key>>
                  \o (IF f.quoted_uri THEN <<"\"GET", "/k", "H\"">> ELSE <<"-">>)
                  \o <<f.http_status_code, "-", f.bytes_sent, "9", "8", "7", "\"-\"", f.user_agent, "-",
                       "h", "s", "c", "a", "e">>
                  \o (IF f.count - ExtraItems(f.user_agent) >= 24 THEN <<"t">> ELSE <<>>)
                  \o (IF f.count - ExtraItems(f.user_agent) >= 25 THEN <<"n">> ELSE <<>>)
                  \o (IF f.count - ExtraItems(f.user_agent) >= 26 THEN <<"x">> ELSE <<>>)
    IN join([i \in 1 .. Len(fields) |-> Chars(fields[i])], <<SPACE>>)

(***************************************************************************)
(* One call of a line reducer on one raw line                              *)
(***************************************************************************)
LineInit ==
    /\ ReaderIdle
    /\ FileIdle
    /\ BatchIdle
    /\ BinIdle
    /\ error_files = <<>>
    /\ \E f \in LineFields, op \in RequestedOperations, table \in ExcludedIpTables :
         /\ ln_fields = f
         /\ ln_raw_s3_log_line = RawLine(f)
         /\ ln_operation_type = Chars(op)
         /\ ln_excluded_ips = table
         /\ ln_excluded_ips_before = table
    /\ ln_pc = "ready"
    /\ ln_reducer = "none"
    /\ ln_handler = "none"
    /\ ln_task_id = NoTaskId
    /\ ln_kind = "none"
    /\ ln_row = <<>>

LineReturn(reducer, handler, task_id, outcome) ==
    /\ ln_pc' = "done"
    /\ ln_reducer' = reducer
    /\ ln_handler' = handler
    /\ ln_task_id' = task_id
    /\ ln_kind' = outcome.kind
    /\ ln_row' = outcome.row
    /\ ln_excluded_ips' = outcome.excluded_ips
    /\ error_files' = collect_errors(error_files, outcome.errors)
    /\ UNCHANGED <<ln_fields, ln_raw_s3_log_line, ln_operation_type, ln_excluded_ips_before, rdVars, flVars,
                   btVars, bnVars>>

CallFastReducer ==
    /\ ln_pc = "ready"
    /\ \E task_id \in LineTaskIds :
         LineReturn("fast", "dandi", task_id,
                    fast_dandi_reduce_raw_s3_log_line(ln_raw_s3_log_line, ln_operation_type, ln_excluded_ips,
                                                      task_id))

CallGeneralReducer ==
    /\ ln_pc = "ready"
    /\ \E task_id \in LineTaskIds, handler \in {"identity", "dandi"} :
         LineReturn("general", handler, task_id,
                    reduce_raw_s3_log_line(ln_raw_s3_log_line, ln_operation_type, ln_excluded_ips, handler,
                                           task_id))

LineNext == CallFastReducer \/ CallGeneralReducer

SpecLine == LineInit /\ [][LineNext]_vars

(***************************************************************************)
(* reduce_raw_s3_log: one raw file to one reduced file.                    *)
(* The raw file holds up to MaxFileLines lines; a line is one of           *)
(* RawFileLines, ends with a line feed, and the last line's line feed can  *)
(* be missing.  maximum_buffer_size_in_bytes puts the reader's boundary    *)
(* B = M div 3 at the end of the file, one byte past it, or two bytes past *)
(* the first line.                                                         *)
(***************************************************************************)
RawFileFields ==
    LET accepted == [timestamp |-> "31/Dec/2019:23:05:09", timezone |-> "+0000", ip_address |-> "8.8.8.8",
                     operation |-> "REST.GET.OBJECT", object_key |-> "blobs/a/XYZ", quoted_uri |-> TRUE,
                     http_status_code |-> "200", bytes_sent |-> "123", count |-> 25,
                     user_agent |-> PlainUserAgent]
    IN {accepted,
        [accepted EXCEPT !.object_key = "zarr/ZID/0/1", !.bytes_sent = "-"],
        [accepted EXCEPT !.http_status_code = "404"],
        [accepted EXCEPT !.bytes_sent = "abc"]}

RawFileLines == {RawLine(f) : f \in RawFileFields}

RawFiles ==
    LET bodies == SeqsUpTo(RawFileLines, MaxFileLines)
        terminated(lines) == Flatten([i \in 1 .. Len(lines) |-> lines[i] \o <<LF>>])
    IN {terminated(lines) : lines \in bodies}
       \cup {Front(terminated(lines)) : lines \in bodies \ {<<>>}}

BufferSizesFor(bytes) ==
    LET first_line == splitlines(bytes)
        sizes == {Len(bytes), Len(bytes) + 1} \cup (IF first_line = <<>> THEN {} ELSE {Len(first_line[1]) + 2})
    IN {3 * size : size \in sizes \ {0}}

default_operation_type == Chars("REST.GET.OBJECT")
header == Chars("timestamp") \o <<TAB>> \o Chars("ip_address") \o <<TAB>> \o Chars("object_key") \o <<TAB>>
          \o Chars("bytes_sent") \o <<LF>>

\* one pass of the comprehension over the lines of one buffer: the rows kept,
\* the diagnostics written, the lookup table, and whether a reducer raised
reduce_line(reducer, handler, raw_s3_log_line, excluded_ips, task_id) ==
    IF reducer = "fast"
    THEN fast_dandi_reduce_raw_s3_log_line(raw_s3_log_line, default_operation_type, excluded_ips, task_id)
    ELSE reduce_raw_s3_log_line(raw_s3_log_line, default_operation_type, excluded_ips, handler, task_id)

RECURSIVE reduce_lines(_, _, _, _, _)
reduce_lines(reducer, handler, raw_s3_log_lines_buffer, task_id, so_far) ==
    IF raw_s3_log_lines_buffer = <<>> \/ so_far.raised THEN so_far
    ELSE With(reduce_line(reducer, handler, Head(raw_s3_log_lines_buffer), so_far.excluded_ips, task_id),
              LAMBDA outcome :
                reduce_lines(reducer, handler, Tail(raw_s3_log_lines_buffer), task_id,
                             [rows |-> IF outcome.kind = "row" THEN Append(so_far.rows, outcome.row)
                                       ELSE so_far.rows,
                              files |-> collect_errors(so_far.files, outcome.errors),
                              excluded_ips |-> outcome.excluded_ips,
                              raised |-> outcome.kind = "raise"]))

FileInit ==
    /\ \E bytes \in RawFiles :
         \E M \in BufferSizesFor(bytes) : BufferedTextReader_init(bytes, M)
    /\ \E mode \in {<<"fast", "dandi">>, <<"general", "dandi">>, <<"general", "identity">>} :
         /\ fl_reducer = mode[1]
         /\ fl_handler = mode[2]
    /\ fl_excluded_ips \in ExcludedIpTables
    /\ fl_task_id \in LineTaskIds
    /\ fl_pc = "reading"
    /\ fl_reduced_s3_log_lines = <<>>
    /\ fl_reduced_file = AbsentFile
    /\ fl_io = <<>>
    /\ error_files = <<>>
    /\ LineIdle
    /\ BatchIdle
    /\ BinIdle

\* a comprehension that dumps the rows of each buffer to the reduced file as
\* soon as the buffer is reduced
ReduceNextBuffer_dumping_each_buffer ==
    /\ fl_pc = "reading"
    /\ BufferedTextReader_next
    /\ IF rd_status' = "iterating"
       THEN LET reduced == reduce_lines(fl_reducer, fl_handler, Last(rd_batches'), fl_task_id,
                                        [rows |-> fl_reduced_s3_log_lines, files |-> error_files,
                                         excluded_ips |-> fl_excluded_ips, raised |-> FALSE])
            IN /\ fl_pc' = IF reduced.raised THEN "raised" ELSE "reading"
               /\ fl_reduced_s3_log_lines' = reduced.rows
               /\ fl_excluded_ips' = reduced.excluded_ips
               /\ error_files' = reduced.files
               /\ fl_reduced_file' = [exists |-> TRUE, content |-> reduced.rows]
       ELSE /\ fl_pc' = IF rd_status' = "StopIteration" THEN "open" ELSE "raised"
            /\ UNCHANGED <<fl_reduced_s3_log_lines, fl_excluded_ips, error_files, fl_reduced_file>>
    /\ UNCHANGED <<fl_reducer, fl_handler, fl_task_id, fl_io, lnVars, btVars, bnVars>>

\* the comprehension asks the reader for its next buffer and reduces its lines
ReduceNextBuffer ==
    /\ fl_pc = "reading"
    /\ BufferedTextReader_next
    /\ IF rd_status' = "iterating"
       THEN LET reduced == reduce_lines(fl_reducer, fl_handler, Last(rd_batches'), fl_task_id,
                                        [rows |-> fl_reduced_s3_log_lines, files |-> error_files,
                                         excluded_ips |-> fl_excluded_ips, raised |-> FALSE])
            IN /\ fl_pc' = IF reduced.raised THEN "raised" ELSE "reading"
               /\ fl_reduced_s3_log_lines' = reduced.rows
               /\ fl_excluded_ips' = reduced.excluded_ips
               /\ error_files' = reduced.files
       ELSE /\ fl_pc' = IF rd_status' = "StopIteration" THEN "open" ELSE "raised"
            /\ UNCHANGED <<fl_reduced_s3_log_lines, fl_excluded_ips, error_files>>
    /\ UNCHANGED <<fl_reducer, fl_handler, fl_task_id, fl_reduced_file, fl_io, lnVars, btVars, bnVars>>

\* open(file=reduced_s3_log_file_path, mode="w"): the file exists and is empty
OpenReducedFile ==
    /\ fl_pc = "open"
    /\ fl_pc' = "write_header"
    /\ fl_reduced_file' = [exists |-> TRUE, content |-> <<>>]
    /\ fl_io' = <<>>
    /\ UNCHANGED <<fl_reducer, fl_handler, fl_excluded_ips, fl_task_id, fl_reduced_s3_log_lines,
                   rdVars, error_files, lnVars, btVars, bnVars>>

\* io.write(header), header = "" when no line was kept
WriteHeader ==
    /\ fl_pc = "write_header"
    /\ fl_pc' = "write_lines"
    /\ fl_io' = IF Len(fl_reduced_s3_log_lines) # 0 THEN Append(fl_io, header) ELSE fl_io
    /\ UNCHANGED <<fl_reducer, fl_handler, fl_excluded_ips, fl_task_id, fl_reduced_s3_log_lines,
                   fl_reduced_file, rdVars, error_files, lnVars, btVars, bnVars>>

\* io.writelines(reduced_s3_log_lines)
WriteLines ==
    /\ fl_pc = "write_lines"
    /\ fl_pc' = "close"
    /\ fl_io' = fl_io \o fl_reduced_s3_log_lines
    /\ UNCHANGED <<fl_reducer, fl_handler, fl_excluded_ips, fl_task_id, fl_reduced_s3_log_lines,
                   fl_reduced_file, rdVars, error_files, lnVars, btVars, bnVars>>

\* the end of the with block: what was written reaches the file; return None
CloseReducedFile ==
    /\ fl_pc = "close"
    /\ fl_pc' = "returned"
    /\ fl_reduced_file' = [exists |-> TRUE, content |-> fl_reduced_file.content \o fl_io]
    /\ fl_io' = <<>>
    /\ UNCHANGED <<fl_reducer, fl_handler, fl_excluded_ips, fl_task_id, fl_reduced_s3_log_lines,
                   rdVars, error_files, lnVars, btVars, bnVars>>

\* the process is killed: what is in the file stays, what is not is lost
KillProcess ==
    /\ fl_pc \in {"reading", "open", "write_header", "write_lines", "close"}
    /\ fl_pc' = "killed"
    /\ fl_io' = <<>>
    /\ UNCHANGED <<fl_reducer, fl_handler, fl_excluded_ips, fl_task_id, fl_reduced_s3_log_lines,
                   fl_reduced_file, rdVars, error_files, lnVars, btVars, bnVars>>

FileNext ==
    \/ ReduceNextBuffer
    \/ OpenReducedFile
    \/ WriteHeader
    \/ WriteLines
    \/ CloseReducedFile
    \/ KillProcess

SpecFile == FileInit /\ [][FileNext]_vars

(***************************************************************************)
(* reduce_all_dandi_raw_s3_logs (_dandi_s3_log_file_reducer.py).           *)
(* A *.log file is named by its path relative to the raw root, as parent   *)
(* and stem; the reduced file of a day has the same parent and stem under  *)
(* the folder it is written to.  A folder is a function from relative path *)
(* to file (exists, content as a sequence of lines).                       *)
(***************************************************************************)
MaxWorkers == 2         \* largest maximum_number_of_workers of the batch model

LogPaths == [parent : {"2020/01"}, stem : {"01", "02", "start-end"}]
Days == {path \in LogPaths : isdigit(Chars(path.stem))}
Pids == 100 .. (100 + MaxWorkers)
Idle == [day |-> [parent |-> "none", stem |-> "none"], worker_index |-> -1]
EmptyFolder == [day \in LogPaths |-> AbsentFile]

\* the rows a day file reduces to (one accepted line per day file)
reduced_s3_log_lines_of(day) == <<Chars(day.stem) \o <<LF>>>>

\* a reduced file left by an earlier batch
EarlierReducedFile(day) == [exists |-> TRUE, content |-> <<header, Chars("earlier") \o <<LF>>>>]

\* random.shuffle: any order of the enumerated paths
Orders(S) == {order \in SeqsUpTo(S, Cardinality(S)) :
                Len(order) = Cardinality(S) /\ {order[i] : i \in DOMAIN order} = S}

\* the pids of the processes of a pool: distinct, otherwise arbitrary
PoolPids(n) == {pids \in SeqsUpTo(Pids, n) :
                  Len(pids) = n /\ \A i, j \in DOMAIN pids : i # j => pids[i] # pids[j]}

\* reduce_raw_s3_log as reduce_dandi_raw_s3_log calls it, with a folder and a
\* mode: the rows of the day go to the day's file in the folder; mode "a"
\* appends to a file that exists and writes the header to one that does not
reduce_raw_s3_log(folder, day, mode) ==
    IF folder[day].exists /\ mode = "a"
    THEN [folder EXCEPT ![day].content = @ \o reduced_s3_log_lines_of(day)]
    ELSE [folder EXCEPT ![day] = [exists |-> TRUE,
                                  content |-> <<header>> \o reduced_s3_log_lines_of(day)]]

\* reduce_dandi_raw_s3_log: passes its arguments on
reduce_dandi_raw_s3_log(folder, day, mode) == reduce_raw_s3_log(folder, day, mode)

\* daily_raw_s3_log_file_paths: every *.log with a numeric stem
daily_raw_s3_log_file_paths(raw_s3_logs) == {path \in raw_s3_logs : isdigit(Chars(path.stem))}

\* worker_index = os.getpid() % maximum_number_of_workers
worker_index_of(pid, maximum_number_of_workers) == pid % maximum_number_of_workers

\* per_worker_reduced_s3_log_file_paths: rglob("*.tsv") of a worker folder
per_worker_reduced_s3_log_file_paths(folder) == {day \in DOMAIN folder : folder[day].exists}

\* pandas.read_table(header=0) then to_csv(mode="a", header=not exists) for
\* one file of a worker folder
merge_file(reduced, folder, day) ==
    LET parsed_s3_log == Tail(folder[day].content)
    IN IF reduced[day].exists
       THEN [reduced EXCEPT ![day].content = @ \o parsed_s3_log]
       ELSE [reduced EXCEPT ![day] = [exists |-> TRUE, content |-> <<header>> \o parsed_s3_log]]

RECURSIVE merge_files(_, _, _)
merge_files(reduced, folder, paths) ==
    IF paths = {} THEN reduced
    ELSE LET day == CHOOSE d \in paths : TRUE
         IN merge_files(merge_file(reduced, folder, day), folder, paths \ {day})

BatchInit ==
    /\ bt_pc = "start"
    /\ bt_run = 1
    /\ bt_raw_days \in SUBSET LogPaths
    /\ bt_reduced \in {[day \in LogPaths |-> IF day \in earlier THEN EarlierReducedFile(day) ELSE AbsentFile] :
                         earlier \in SUBSET Days}
    /\ bt_reduced_at_start = bt_reduced
    /\ bt_maximum_number_of_workers \in 1 .. MaxWorkers
    /\ bt_raising \in SUBSET daily_raw_s3_log_file_paths(bt_raw_days)
    /\ bt_pending = <<>>
    /\ bt_pids = <<>>
    /\ bt_running = <<>>
    /\ bt_temp = <<>>
    /\ bt_merge_index = 0
    /\ bt_called = {}
    /\ error_files = <<>>
    /\ ReaderIdle
    /\ LineIdle
    /\ FileIdle
    /\ BinIdle

\* enumeration and shuffle; with several workers, the .temp folder is emptied,
\* the task folder and one folder per worker_index are made, the pool is
\* started and one task per path is submitted
StartBatch ==
    /\ bt_pc = "start"
    /\ bt_reduced_at_start' = bt_reduced
    /\ bt_called' = {}
    /\ bt_merge_index' = 0
    /\ bt_pending' \in Orders(daily_raw_s3_log_file_paths(bt_raw_days))
    /\ IF bt_maximum_number_of_workers = 1
       THEN /\ bt_pc' = "serial"
            /\ UNCHANGED <<bt_pids, bt_running, bt_temp>>
       ELSE /\ bt_pc' = "parallel"
            /\ bt_pids' \in PoolPids(bt_maximum_number_of_workers)
            /\ bt_running' = [process \in 1 .. bt_maximum_number_of_workers |-> Idle]
            /\ bt_temp' = [worker_index \in 0 .. (bt_maximum_number_of_workers - 1) |-> EmptyFolder]
    /\ UNCHANGED <<bt_run, bt_raw_days, bt_reduced, bt_maximum_number_of_workers, bt_raising,
                   error_files, rdVars, lnVars, flVars, bnVars>>

\* one pass of the loop of the single-worker branch; no try around the call
SerialReduceNext ==
    /\ bt_pc = "serial"
    /\ IF bt_pending = <<>>
       THEN /\ bt_pc' = "returned"
            /\ UNCHANGED <<bt_pending, bt_called, bt_reduced>>
       ELSE /\ bt_pending' = Tail(bt_pending)
            /\ bt_called' = bt_called \cup {Head(bt_pending)}
            /\ IF Head(bt_pending) \in bt_raising
               THEN /\ bt_pc' = "raised"
                    /\ UNCHANGED bt_reduced
               ELSE /\ bt_pc' = "serial"
                    /\ bt_reduced' = reduce_dandi_raw_s3_log(bt_reduced, Head(bt_pending), "a")
    /\ UNCHANGED <<bt_run, bt_raw_days, bt_reduced_at_start, bt_maximum_number_of_workers, bt_raising,
                   bt_pids, bt_running, bt_temp, bt_merge_index, error_files, rdVars, lnVars, flVars, bnVars>>

\* a pool whose queue keeps a task after a process has taken it
WorkerTakesTask_keeping_task ==
    /\ bt_pc = "parallel"
    /\ bt_pending # <<>>
    /\ \E process \in DOMAIN bt_running :
         /\ bt_running[process] = Idle
         /\ bt_running' = [bt_running EXCEPT ![process] =
                              [day |-> Head(bt_pending),
                               worker_index |-> worker_index_of(bt_pids[process],
                                                                bt_maximum_number_of_workers)]]
    /\ UNCHANGED <<bt_pending, bt_pc, bt_run, bt_raw_days, bt_reduced, bt_reduced_at_start,
                   bt_maximum_number_of_workers, bt_raising, bt_pids, bt_temp, bt_merge_index, bt_called,
                   error_files, rdVars, lnVars, flVars, bnVars>>

\* a process of the pool takes the next submitted task and enters
\* _multi_worker_reduce_dandi_raw_s3_log: it derives its worker_index and folder
WorkerTakesTask ==
    /\ bt_pc = "parallel"
    /\ bt_pending # <<>>
    /\ \E process \in DOMAIN bt_running :
         /\ bt_running[process] = Idle
         /\ bt_running' = [bt_running EXCEPT ![process] =
                              [day |-> Head(bt_pending),
                               worker_index |-> worker_index_of(bt_pids[process],
                                                                bt_maximum_number_of_workers)]]
    /\ bt_pending' = Tail(bt_pending)
    /\ UNCHANGED <<bt_pc, bt_run, bt_raw_days, bt_reduced, bt_reduced_at_start,
                   bt_maximum_number_of_workers, bt_raising, bt_pids, bt_temp, bt_merge_index, bt_called,
                   error_files, rdVars, lnVars, flVars, bnVars>>

\* the rest of _multi_worker_reduce_dandi_raw_s3_log: the call inside the try,
\* and the except branch that writes the `parallel` diagnostic
WorkerFinishesTask ==
    /\ bt_pc = "parallel"
    /\ \E process \in DOMAIN bt_running :
         /\ bt_running[process] # Idle
         /\ bt_running' = [bt_running EXCEPT ![process] = Idle]
         /\ bt_called' = bt_called \cup {bt_running[process].day}
         /\ IF bt_running[process].day \in bt_raising
            THEN /\ \E task_id \in TaskIds :
                      error_files' = collect_error(error_files,
                                         Error(<<"Worker index", bt_running[process].worker_index,
                                                 bt_running[process].day, "failed!">>,
                                               "parallel", task_id))
                 /\ UNCHANGED bt_temp
            ELSE /\ bt_temp' = [bt_temp EXCEPT ![bt_running[process].worker_index] =
                                   reduce_dandi_raw_s3_log(@, bt_running[process].day, "a")]
                 /\ UNCHANGED error_files
    /\ UNCHANGED <<bt_pc, bt_run, bt_raw_days, bt_reduced, bt_reduced_at_start,
                   bt_maximum_number_of_workers, bt_raising, bt_pending, bt_pids, bt_merge_index,
                   rdVars, lnVars, flVars, bnVars>>

\* every future has a result: the with block of the executor ends
ParallelParsingComplete ==
    /\ bt_pc = "parallel"
    /\ bt_pending = <<>>
    /\ \A process \in DOMAIN bt_running : bt_running[process] = Idle
    /\ bt_pc' = "merge"
    /\ UNCHANGED <<bt_run, bt_raw_days, bt_reduced, bt_reduced_at_start, bt_maximum_number_of_workers,
                   bt_raising, bt_pending, bt_pids, bt_running, bt_temp, bt_merge_index, bt_called,
                   error_files, rdVars, lnVars, flVars, bnVars>>

\* one pass of the merge loop: the assert on the folder of one worker_index,
\* then every file of the folder is read and appended to its merge target
MergeWorkerFolder ==
    /\ bt_pc = "merge"
    /\ LET folder == bt_temp[bt_merge_index]
           paths == per_worker_reduced_s3_log_file_paths(folder)
       IN IF Cardinality(paths) = 0 \/ \E day \in paths : folder[day].content = <<>>
          THEN /\ bt_pc' = "raised"
               /\ UNCHANGED <<bt_reduced, bt_merge_index>>
          ELSE /\ bt_reduced' = merge_files(bt_reduced, folder, paths)
               /\ bt_merge_index' = bt_merge_index + 1
               /\ bt_pc' = IF bt_merge_index + 1 = bt_maximum_number_of_workers
                           THEN "cleanup" ELSE "merge"
    /\ UNCHANGED <<bt_run, bt_raw_days, bt_reduced_at_start, bt_maximum_number_of_workers, bt_raising,
                   bt_pending, bt_pids, bt_running, bt_temp, bt_called, error_files, rdVars, lnVars,
                   flVars, bnVars>>

\* shutil.rmtree of the .temp folder; return
RemoveTemporaryFolder ==
    /\ bt_pc = "cleanup"
    /\ bt_pc' = "returned"
    /\ bt_temp' = <<>>
    /\ UNCHANGED <<bt_run, bt_raw_days, bt_reduced, bt_reduced_at_start, bt_maximum_number_of_workers,
                   bt_raising, bt_pending, bt_pids, bt_running, bt_merge_index, bt_called, error_files,
                   rdVars, lnVars, flVars, bnVars>>

\* the caller runs the batch again over the same archive and reduced folder
RunAgain ==
    /\ bt_pc \in {"returned", "raised"}
    /\ bt_run = 1
    /\ bt_run' = 2
    /\ bt_pc' = "start"
    /\ UNCHANGED <<bt_raw_days, bt_reduced, bt_reduced_at_start, bt_maximum_number_of_workers,
                   bt_raising, bt_pending, bt_pids, bt_running, bt_temp, bt_merge_index, bt_called,
                   error_files, rdVars, lnVars, flVars, bnVars>>

BatchNext ==
    \/ StartBatch
    \/ SerialReduceNext
    \/ WorkerTakesTask
    \/ WorkerFinishesTask
    \/ ParallelParsingComplete
    \/ MergeWorkerFolder
    \/ RemoveTemporaryFolder
    \/ RunAgain

SpecBatch == BatchInit /\ [][BatchNext]_vars

(***************************************************************************)
(* bin_all_reduced_s3_logs_by_object_key                                   *)
(* (_bin_all_reduced_s3_logs_by_object_key.py).  A reduced file is the     *)
(* sequence of its rows (a file without rows has size 0: reduce_raw_s3_log *)
(* writes the header only when there are rows); a tracking file is the     *)
(* sequence of the paths written to it, one per line; a binned file is the *)
(* sequence of its lines, the header line included.                        *)
(***************************************************************************)
MaxCalls == 3           \* largest number of calls of the binning model

\* pandas.read_csv reads these texts as missing values (a part of its default list)
NaValues == {"null"}
NaN == "NaN"

\* the object keys of the model that are not missing values, as groupby sorts them
SortedObjectKeys == <<"blobs/a/XYZ", "zarr/ZID">>

ReducedRow(timestamp, ip_address, object_key, bytes_sent) ==
    [timestamp |-> timestamp, ip_address |-> ip_address, object_key |-> object_key,
     bytes_sent |-> bytes_sent]

\* the reduced folders a call can be given
ReducedFolders ==
    { ("2020/01/01.tsv" :> <<ReducedRow("t1", "8.8.8.8", "blobs/a/XYZ", "1"),
                             ReducedRow("t2", "8.8.8.8", "zarr/ZID", "2"),
                             ReducedRow("t3", "8.8.4.4", "blobs/a/XYZ", "3")>>)
        @@ ("2020/01/02.tsv" :> <<ReducedRow("t4", "8.8.8.8", "blobs/a/XYZ", "4")>>)
        @@ ("2020/01/03.tsv" :> <<>>),
      ("2020/01/01.tsv" :> <<ReducedRow("t1", "8.8.8.8", "blobs/a/XYZ", "1"),
                             ReducedRow("t2", "8.8.8.8", "null", "2")>>)
        @@ ("2020/01/02.tsv" :> <<ReducedRow("t3", "8.8.8.8", "zarr/ZID", "3")>>),
      ("2020/01/01.tsv" :> <<ReducedRow("t1", "8.8.8.8", "zarr/ZID", "1")>>) }

FileLimits == {[is_none |-> TRUE, value |-> 0]} \cup {[is_none |-> FALSE, value |-> n] : n \in -1 .. 2}

\* list[:file_limit]
slice_to(list, file_limit) ==
    IF file_limit.is_none THEN list
    ELSE IF file_limit.value >= 0
         THEN SubSeq(list, 1, IF file_limit.value < Len(list) THEN file_limit.value ELSE Len(list))
         ELSE SubSeq(list, 1, Len(list) + file_limit.value)

\* set(pathlib.Path(path.rstrip("\n")) for path in io.readlines())
tracked_paths(tracking_file) == {tracking_file.content[i] : i \in DOMAIN tracking_file.content}

\* open(mode="a"); io.write(f"{reduced_s3_log_file}\n")
track(tracking_file, reduced_s3_log_file) ==
    [exists |-> TRUE, content |-> Append(tracking_file.content, reduced_s3_log_file)]

\* list(set(rglob("*.tsv")) - completed)[:file_limit]: a set is listed in any order
reduced_s3_log_files_of(reduced, completed, file_limit) ==
    {slice_to(order, file_limit) : order \in Orders(DOMAIN reduced \ completed)}

\* pandas.read_csv(sep="\t"): a text that stands for a missing value is read as NaN
read_csv(rows) ==
    [i \in DOMAIN rows |->
        [rows[i] EXCEPT !.object_key = IF @ \in NaValues THEN NaN ELSE @]]

\* one row of a binned file: the columns timestamp, bytes_sent, ip_address
binned_row(row) == <<row.timestamp, row.bytes_sent, row.ip_address>>
binned_header == <<"timestamp", "bytes_sent", "ip_address">>

\* groupby("object_key").agg(list) and the dict built from it: one entry per
\* object key, in sorted order, with the rows of the key in file order; rows
\* whose key is NaN belong to no group
object_keys_to_data_of(reduced_data_frame) ==
    LET in_frame(object_key) == \E i \in DOMAIN reduced_data_frame :
                                    reduced_data_frame[i].object_key = object_key
        names == SelectSeq(SortedObjectKeys, in_frame)
        of_key(object_key) ==
            LET has_key(row) == row.object_key = object_key
                rows == SelectSeq(reduced_data_frame, has_key)
            IN [i \in DOMAIN rows |-> binned_row(rows[i])]
    IN [k \in DOMAIN names |-> [object_key |-> names[k], data |-> of_key(names[k])]]

\* binned_s3_logs_folder_path / object_key.parent / f"{object_key.name}.tsv"
binned_s3_log_file_path(object_key) == <<object_key, ".tsv">>

\* DataFrame.to_csv(mode="a", header=not exists)
to_csv(binned, path, data) ==
    IF path \in DOMAIN binned
    THEN [binned EXCEPT ![path] = @ \o data]
    ELSE binned @@ (path :> (<<binned_header>> \o data))

BinInit ==
    /\ bn_pc = "ready"
    /\ bn_calls = 0
    /\ bn_file_limit = [is_none |-> TRUE, value |-> 0]
    /\ bn_reduced \in ReducedFolders
    /\ bn_started = AbsentFile
    /\ bn_completed = AbsentFile
    /\ bn_binned = <<>>
    /\ bn_reduced_s3_log_files = <<>>
    /\ bn_reduced_s3_log_file = "none"
    /\ bn_object_keys_to_data = <<>>
    /\ error_files = <<>>
    /\ ReaderIdle
    /\ LineIdle
    /\ FileIdle
    /\ BatchIdle

\* a call that tests the started file only
bin_all_reduced_s3_logs_by_object_key_testing_started_only(file_limit) ==
    /\ bn_pc \in {"ready", "returned", "FileNotFoundError", "ValueError", "killed"}
    /\ bn_calls < MaxCalls
    /\ bn_calls' = bn_calls + 1
    /\ bn_file_limit' = file_limit
    /\ IF ~bn_started.exists
       THEN /\ bn_pc' = "touch_completed"
            /\ bn_started' = [exists |-> TRUE, content |-> <<>>]
            /\ UNCHANGED bn_reduced_s3_log_files
       ELSE IF tracked_paths(bn_started) # tracked_paths(bn_completed)
       THEN /\ bn_pc' = "ValueError"
            /\ UNCHANGED <<bn_started, bn_reduced_s3_log_files>>
       ELSE /\ bn_pc' = "loop"
            /\ bn_reduced_s3_log_files' \in
                   reduced_s3_log_files_of(bn_reduced, tracked_paths(bn_completed), file_limit)
            /\ UNCHANGED bn_started
    /\ UNCHANGED <<bn_reduced, bn_completed, bn_binned, bn_reduced_s3_log_file, bn_object_keys_to_data,
                   rdVars, error_files, lnVars, flVars, btVars>>

\* a call up to the loop (lines 30-57): the checks of the tracking files; a
\* first call creates the started file (the completed file is the next step)
bin_all_reduced_s3_logs_by_object_key(file_limit) ==
    /\ bn_pc \in {"ready", "returned", "FileNotFoundError", "ValueError", "killed"}
    /\ bn_calls < MaxCalls
    /\ bn_calls' = bn_calls + 1
    /\ bn_file_limit' = file_limit
    /\ IF bn_started.exists # bn_completed.exists
       THEN /\ bn_pc' = "FileNotFoundError"
            /\ UNCHANGED <<bn_started, bn_reduced_s3_log_files>>
       ELSE IF ~bn_started.exists
       THEN /\ bn_pc' = "touch_completed"
            /\ bn_started' = [exists |-> TRUE, content |-> <<>>]
            /\ UNCHANGED bn_reduced_s3_log_files
       ELSE IF tracked_paths(bn_started) # tracked_paths(bn_completed)
       THEN /\ bn_pc' = "ValueError"
            /\ UNCHANGED <<bn_started, bn_reduced_s3_log_files>>
       ELSE /\ bn_pc' = "loop"
            /\ bn_reduced_s3_log_files' \in
                   reduced_s3_log_files_of(bn_reduced, tracked_paths(bn_completed), file_limit)
            /\ UNCHANGED bn_started
    /\ UNCHANGED <<bn_reduced, bn_completed, bn_binned, bn_reduced_s3_log_file, bn_object_keys_to_data,
                   rdVars, error_files, lnVars, flVars, btVars>>

\* completed_tracking_file_path.touch() of a first call, then the files are listed
TouchCompleted ==
    /\ bn_pc = "touch_completed"
    /\ bn_completed' = [exists |-> TRUE, content |-> <<>>]
    /\ bn_reduced_s3_log_files' \in reduced_s3_log_files_of(bn_reduced, {}, bn_file_limit)
    /\ bn_pc' = "loop"
    /\ UNCHANGED <<bn_calls, bn_file_limit, bn_reduced, bn_started, bn_binned, bn_reduced_s3_log_file,
                   bn_object_keys_to_data, rdVars, error_files, lnVars, flVars, btVars>>

\* a loop that does not write the reduced file to the started file
NextReducedFile_not_tracking ==
    /\ bn_pc = "loop"
    /\ IF bn_reduced_s3_log_files = <<>>
       THEN /\ bn_pc' = "returned"
            /\ UNCHANGED <<bn_reduced_s3_log_files, bn_reduced_s3_log_file, bn_object_keys_to_data>>
       ELSE LET reduced_s3_log_file == Head(bn_reduced_s3_log_files)
            IN /\ bn_pc' = "binning"
               /\ bn_reduced_s3_log_files' = Tail(bn_reduced_s3_log_files)
               /\ bn_reduced_s3_log_file' = reduced_s3_log_file
               /\ bn_object_keys_to_data' =
                      IF bn_reduced[reduced_s3_log_file] = <<>> THEN <<>>
                      ELSE object_keys_to_data_of(read_csv(bn_reduced[reduced_s3_log_file]))
    /\ UNCHANGED <<bn_calls, bn_file_limit, bn_reduced, bn_started, bn_completed, bn_binned,
                   rdVars, error_files, lnVars, flVars, btVars>>

\* the head of the loop over the reduced files: the function returns after the
\* last file; a file of size 0 is written to the started file (its line in the
\* completed file follows); any other file is read and grouped, then written to
\* the started file
NextReducedFile ==
    /\ bn_pc = "loop"
    /\ IF bn_reduced_s3_log_files = <<>>
       THEN /\ bn_pc' = "returned"
            /\ UNCHANGED <<bn_reduced_s3_log_files, bn_reduced_s3_log_file, bn_started,
                           bn_object_keys_to_data>>
       ELSE LET reduced_s3_log_file == Head(bn_reduced_s3_log_files)
            IN /\ bn_pc' = "binning"
               /\ bn_reduced_s3_log_files' = Tail(bn_reduced_s3_log_files)
               /\ bn_reduced_s3_log_file' = reduced_s3_log_file
               /\ bn_object_keys_to_data' =
                      IF bn_reduced[reduced_s3_log_file] = <<>> THEN <<>>
                      ELSE object_keys_to_data_of(read_csv(bn_reduced[reduced_s3_log_file]))
               /\ bn_started' = track(bn_started, reduced_s3_log_file)
    /\ UNCHANGED <<bn_calls, bn_file_limit, bn_reduced, bn_completed, bn_binned,
                   rdVars, error_files, lnVars, flVars, btVars>>

\* one pass of the loop over the object keys: the rows of the key are appended
\* to the binned file of the key
BinObjectKey ==
    /\ bn_pc = "binning"
    /\ bn_object_keys_to_data # <<>>
    /\ bn_binned' = to_csv(bn_binned, binned_s3_log_file_path(Head(bn_object_keys_to_data).object_key),
                           Head(bn_object_keys_to_data).data)
    /\ bn_object_keys_to_data' = Tail(bn_object_keys_to_data)
    /\ UNCHANGED <<bn_pc, bn_calls, bn_file_limit, bn_reduced, bn_started, bn_completed,
                   bn_reduced_s3_log_files, bn_reduced_s3_log_file,
                   rdVars, error_files, lnVars, flVars, btVars>>

\* after the last object key: the reduced file is written to the completed file
CompleteReducedFile ==
    /\ bn_pc = "binning"
    /\ bn_object_keys_to_data = <<>>
    /\ bn_completed' = track(bn_completed, bn_reduced_s3_log_file)
    /\ bn_pc' = "loop"
    /\ UNCHANGED <<bn_calls, bn_file_limit, bn_reduced, bn_started, bn_binned, bn_reduced_s3_log_files,
                   bn_reduced_s3_log_file, bn_object_keys_to_data,
                   rdVars, error_files, lnVars, flVars, btVars>>

\* the process is interrupted: what is in the files stays
InterruptBinning ==
    /\ bn_pc \in {"touch_completed", "loop", "binning"}
    /\ bn_pc' = "killed"
    /\ UNCHANGED <<bn_calls, bn_file_limit, bn_reduced, bn_started, bn_completed, bn_binned,
                   bn_reduced_s3_log_files, bn_reduced_s3_log_file, bn_object_keys_to_data,
                   rdVars, error_files, lnVars, flVars, btVars>>

BinNext ==
    \/ \E file_limit \in FileLimits : bin_all_reduced_s3_logs_by_object_key(file_limit)
    \/ TouchCompleted
    \/ NextReducedFile
    \/ BinObjectKey
    \/ CompleteReducedFile
    \/ InterruptBinning

SpecBin == BinInit /\ [][BinNext]_vars

(***************************************************************************)
(* C1: when iteration ends with StopIteration and no error, the            *)
(* concatenation of the returned lists equals splitlines(file content).    *)
(* The code loses the last line of every full-size read that ends on a     *)
(* line feed.                                                              *)
(***************************************************************************)
C1_BatchesEqualSplitlines ==
    rd_status = "StopIteration" => rd_returned = splitlines(decode(file_bytes).s)

(***************************************************************************)
(* What the fields of the raw line say, read from the record the line was  *)
(* written from, and the rows expected of them, written out as literals.   *)
(***************************************************************************)
LineDone == ln_pc = "done"
StatusIsNumeric == ln_fields.http_status_code \in {"200", "404", "4040"}
StatusBeginsWith2 == ln_fields.http_status_code = "200"
StatusHasThreeDigits == ln_fields.http_status_code \in {"200", "404"}
OperationIsKnown == ln_fields.operation \in {"REST.GET.OBJECT", "REST.PUT.OBJECT"}
OperationIsRequested == Chars(ln_fields.operation) = ln_operation_type
IpIsExcluded == ln_fields.ip_address = ExcludedIp
TimezoneIsUtc == ln_fields.timezone = "+0000"
TimestampIsWellFormed == ln_fields.timestamp = "31/Dec/2019:23:05:09"
BytesSentIsCount == ln_fields.bytes_sent \in {"123", "-"}
KeyParentIsDandi == ln_fields.object_key \in {"blobs/a/XYZ", "zarr/ZID/0/1"}
NoDiagnostics == error_files = <<>>

ExpectedTimestamp == "2019-12-31T23:05:09"
ExpectedBytesSent == IF ln_fields.bytes_sent = "-" THEN "0" ELSE ln_fields.bytes_sent
ExpectedObjectKey ==
    IF ln_handler = "dandi" /\ ln_fields.object_key = "zarr/ZID/0/1" THEN "zarr/ZID"
    ELSE ln_fields.object_key
ExpectedRow ==
    Chars(ExpectedTimestamp) \o <<TAB>> \o Chars(ln_fields.ip_address) \o <<TAB>>
    \o Chars(ExpectedObjectKey) \o <<TAB>> \o Chars(ExpectedBytesSent) \o <<LF>>

(***************************************************************************)
(* C8: for every raw line, whatever its status, bytes_sent, timestamp and  *)
(* operation fields hold, a call of either line reducer ends with a row or *)
(* None, never with an exception.  _reduce_raw_s3_log_line converts the    *)
(* timestamp and bytes_sent outside its try block, so it raises.           *)
(***************************************************************************)
C8_ReducersNeverRaise ==
    LineDone => ln_kind \in {"row", "None"}

(***************************************************************************)
(* C9 as stated: a 25-field line with a numeric status beginning with 2, a *)
(* known operation equal to the requested one, a non-excluded IP and       *)
(* timezone +0000 makes the line reducer return the row timestamp, ip,     *)
(* handler(key), bytes_sent.  It is read here in its most favourable       *)
(* sense: of lines in the standard layout (quoted request-URI) whose       *)
(* timestamp and bytes_sent can be converted.                              *)
(***************************************************************************)
C9_Accepted ==
    /\ ln_fields.count = 25
    /\ StatusIsNumeric /\ StatusBeginsWith2
    /\ OperationIsKnown /\ OperationIsRequested
    /\ ~IpIsExcluded
    /\ TimezoneIsUtc

C10_Tokenizes == ln_fields.count \in {24, 25, 26}
C10_FilterCondition == ~StatusBeginsWith2 \/ ~OperationIsRequested \/ IpIsExcluded

C10_TimeShiftDiagnosticOnly ==
    /\ DOMAIN error_files = {error_collection_file_name("line", ln_task_id)}
    /\ Len(error_files[error_collection_file_name("line", ln_task_id)]) = 2

RowsOfRawFile ==
    reduce_lines(fl_reducer, fl_handler, splitlines(decode(file_bytes).s), fl_task_id,
                 [rows |-> <<>>, files |-> <<>>, excluded_ips |-> fl_excluded_ips, raised |-> FALSE]).rows

C2_ReducedFileIsHeaderAndRows ==
    fl_pc = "returned" =>
        /\ fl_reduced_file.exists
        /\ fl_reduced_file.content = IF RowsOfRawFile = <<>> THEN <<>> ELSE <<header>> \o RowsOfRawFile

(***************************************************************************)
(* C3: when the process is killed during reduce_raw_s3_log, the reduced    *)
(* file is absent or complete: it does not exist without the header and    *)
(* every row the run kept.  The file is opened with mode "w" and written   *)
(* in place, so it exists, empty, from open() until the with block ends.   *)
(***************************************************************************)
C3_KilledLeavesAbsentOrComplete ==
    (fl_pc = "killed" /\ fl_reduced_file.exists) =>
        fl_reduced_file.content = IF fl_reduced_s3_log_lines = <<>> THEN <<>>
                                  ELSE <<header>> \o fl_reduced_s3_log_lines

(***************************************************************************)
(* C4: reduce_all_dandi_raw_s3_logs never reduces a raw day file whose     *)
(* reduced file already exists at the start of the call, and every reduced *)
(* file that existed then keeps its content.  The enumeration has no test  *)
(* for an existing reduced file, and both the per-file call (mode "a") and *)
(* the merge (to_csv mode "a") append to a file that exists.               *)
(***************************************************************************)
BatchStarted == bt_pc \in {"serial", "parallel", "merge", "cleanup", "returned", "raised"}

C4_ExistingReducedFilesAreSkipped ==
    BatchStarted =>
        \A day \in LogPaths :
            bt_reduced_at_start[day].exists =>
                /\ day \notin bt_called
                /\ bt_reduced[day] = bt_reduced_at_start[day]

(***************************************************************************)
(* C5: a second call over the same raw archive and reduced folder leaves   *)
(* the reduced folder as the first call left it.  The second call reduces  *)
(* every day file again and appends its rows a second time.                *)
(***************************************************************************)
C5_SecondRunChangesNothing ==
    (bt_run = 2 /\ bt_pc = "returned") => bt_reduced = bt_reduced_at_start

(***************************************************************************)
(* C6: whatever the pids of the pool processes, two processes that run     *)
(* tasks at the same time write under different folders.  The folder is    *)
(* worker_<pid % maximum_number_of_workers>, the same for two pids that    *)
(* are congruent.                                                          *)
(***************************************************************************)
C6_ConcurrentWorkersWriteApart ==
    bt_pc = "parallel" =>
        \A p, q \in DOMAIN bt_running :
            (p # q /\ bt_running[p] # Idle /\ bt_running[q] # Idle) =>
                bt_running[p].worker_index # bt_running[q].worker_index

(***************************************************************************)
(* C7: when a task raised inside a pool process, the `parallel` diagnostic *)
(* was written, every submitted task ran, and the call returns.  The merge *)
(* loop asserts that the folder of every worker_index holds a *.tsv file,  *)
(* so the call raises AssertionError when the tasks that wrote under one   *)
(* worker_index all failed.                                                *)
(***************************************************************************)
ParallelDiagnosticWritten ==
    \E task_id \in TaskIds : error_collection_file_name("parallel", task_id) \in DOMAIN error_files

C7_TaskFailureDoesNotAbortBatch ==
    (bt_maximum_number_of_workers > 1 /\ bt_pc \in {"merge", "cleanup", "returned", "raised"}
        /\ bt_called \cap bt_raising # {}) =>
        /\ ParallelDiagnosticWritten
        /\ bt_called = daily_raw_s3_log_file_paths(bt_raw_days)
        /\ bt_pc # "raised"

(***************************************************************************)
(* C11.  Original statement: for every line whose operation is not in the  *)
(* registry of known operation types, the reducer emits no row and appends *)
(* a diagnostic to the `line` category file, in the fast (DANDI)           *)
(* configuration as well as in the general one.                            *)
(***************************************************************************)
LineDiagnosticWritten ==
    \E task_id \in LineTaskIds \cup {NoTaskId} :
        error_collection_file_name("line", task_id) \in DOMAIN error_files

LineFileOfTask == error_collection_file_name("line", ln_task_id)

C11_UnknownOperationDiagnosed_Original ==
    (LineDone /\ ~OperationIsKnown) => (ln_kind = "None" /\ LineDiagnosticWritten)

\* C11, as the code has it: a line whose operation is not in the registry never
\* yields a row.  The general reducer appends exactly one diagnostic to the
\* `line` file of the task when the line tokenizes to 24, 25 or 26 fields
\* ("Unexpected status code" when the status is not numeric, "Unexpected
\* request type" otherwise) and `line` diagnostics only when it does not; the
\* fast reducer drops the line without any diagnostic, the operation being
\* different from the requested one.
C11_UnknownOperationDropped ==
    (LineDone /\ ~OperationIsKnown) =>
        /\ ln_kind = "None"
        /\ ln_reducer = "general" =>
              /\ LineDiagnosticWritten
              /\ DOMAIN error_files \subseteq
                    {LineFileOfTask, error_collection_file_name("line", NoTaskId)}
        /\ (ln_reducer = "general" /\ C10_Tokenizes) =>
              /\ DOMAIN error_files = {LineFileOfTask}
              /\ Len(error_files[LineFileOfTask]) = 2
              /\ error_files[LineFileOfTask][1][1] =
                    (IF StatusIsNumeric THEN "Unexpected request type" ELSE "Unexpected status code")
        /\ ln_reducer = "fast" => NoDiagnostics

\* the general reducer has dropped a 25-field line of an unknown operation
\* with the request type diagnostic
C11_UnknownRequestTypeRecorded ==
    /\ LineDone /\ ln_reducer = "general" /\ ln_fields.operation = "REST.GET.NOTATHING"
    /\ ln_fields.http_status_code = "200" /\ ln_fields.count = 25
    /\ ln_kind = "None"
    /\ LineFileOfTask \in DOMAIN error_files
    /\ error_files[LineFileOfTask][1][1] = "Unexpected request type"

(***************************************************************************)
(* C12.  Original statement: a line whose timezone is not +0000 and which  *)
(* passes every other validation and filter is accepted (its row is        *)
(* returned) and a diagnostic is recorded for it, in the fast (DANDI)      *)
(* configuration as well as in the general one.  It is read of lines in    *)
(* the standard layout whose timestamp and bytes_sent can be converted and *)
(* whose key the configuration keeps.                                      *)
(***************************************************************************)
C12_PassesAllElse ==
    /\ C10_Tokenizes /\ ln_fields.quoted_uri
    /\ StatusIsNumeric /\ StatusBeginsWith2
    /\ OperationIsKnown /\ OperationIsRequested
    /\ ~IpIsExcluded
    /\ TimestampIsWellFormed /\ BytesSentIsCount
    /\ ln_reducer = "fast" => KeyParentIsDandi

C12_ShiftedLineAcceptedAndReported_Original ==
    (LineDone /\ ~TimezoneIsUtc /\ C12_PassesAllElse) =>
        (ln_kind = "row" /\ error_files # <<>>)

\* C12, as the code has it: such a line is accepted by both reducers.  The
\* general reducer appends exactly one time shift diagnostic to the `line`
\* file of the task.  The fast reducer never looks at the timezone: it
\* records nothing, unless bytes_sent is "-", which sends the line to the
\* general reducer and so to its diagnostic.
C12_ShiftedLineAccepted ==
    (LineDone /\ ~TimezoneIsUtc /\ C12_PassesAllElse) =>
        /\ ln_kind = "row" /\ ln_row = ExpectedRow
        /\ ln_reducer = "general" => C10_TimeShiftDiagnosticOnly
        /\ (ln_reducer = "fast" /\ ln_fields.bytes_sent = "123") => NoDiagnostics
        /\ (ln_reducer = "fast" /\ ln_fields.bytes_sent = "-") => C10_TimeShiftDiagnosticOnly

\* the general reducer has returned the row of a +0100 line and reported it
C12_ShiftedRowReported ==
    /\ LineDone /\ ln_reducer = "general" /\ ln_fields.timezone = "+0100" /\ C12_PassesAllElse
    /\ ln_kind = "row" /\ ln_row = ExpectedRow
    /\ error_files[LineFileOfTask][1][1] = "Unexpected time shift parsed from line"

(***************************************************************************)
(* C13: in every row returned by either line reducer, bytes_sent is a      *)
(* non-negative integer whose decimal form equals the raw bytes_sent       *)
(* field, or is 0 if and only if the raw field was "-".                    *)
(***************************************************************************)
RowBytesSent == split(Front(ln_row), <<TAB>>)[4]

C13_BytesSentIsRawCount ==
    (LineDone /\ ln_kind = "row") =>
        /\ isdigit(RowBytesSent)
        /\ RowBytesSent = (IF ln_fields.bytes_sent = "-" THEN Chars("0") ELSE Chars(ln_fields.bytes_sent))

(***************************************************************************)
(* C14: a line whose tokenization yields 24, 25 or 26 fields proceeds to   *)
(* validation and filtering; a line whose tokenization yields any other    *)
(* number of fields produces no row and appends a diagnostic.  A line is   *)
(* tokenized by _reduce_raw_s3_log_line, called directly or by the fast    *)
(* reducer for a line it does not settle itself (here: a kept IP, the      *)
(* requested operation, a blobs or zarr key, a quoted request-URI and a    *)
(* status or bytes_sent that is not decimal digits).  Proceeding to        *)
(* validation and filtering shows in the outcome: no parsing diagnostic,   *)
(* the status or request type diagnostic for a line that fails validation, *)
(* and the row for a line that passes validation and every filter.  For a  *)
(* line whose first pass finds more than 26 items the count is that of the *)
(* tokens after the repair; a repair that fails leaves no count at all.    *)
(***************************************************************************)
C14_FastFallsBack ==
    /\ ~IpIsExcluded /\ OperationIsRequested /\ KeyParentIsDandi /\ ln_fields.quoted_uri
    /\ ln_fields.http_status_code # "404"
    /\ ln_fields.http_status_code = "abc" \/ ln_fields.bytes_sent \in {"-", "abc", "-5"}

C14_Tokenized ==
    LineDone /\ (ln_reducer = "general" \/ (ln_reducer = "fast" /\ C14_FastFallsBack))

C14_ParsingDiagnosticFiles ==
    {error_collection_file_name("line", NoTaskId),
     error_collection_file_name("line_reduction", ln_task_id)}

C14_Convertible == TimestampIsWellFormed /\ ln_fields.bytes_sent # "abc"

C14_FieldCountDecides ==
    C14_Tokenized =>
        /\ C10_Tokenizes =>
              /\ DOMAIN error_files \cap C14_ParsingDiagnosticFiles = {}
              /\ (~StatusIsNumeric \/ ~OperationIsKnown) =>
                    /\ ln_kind = "None"
                    /\ error_files[LineFileOfTask][1][1] \in
                          {"Unexpected status code", "Unexpected request type"}
              /\ (StatusIsNumeric /\ StatusBeginsWith2 /\ OperationIsKnown /\ OperationIsRequested
                     /\ ~IpIsExcluded /\ C14_Convertible) =>
                    ln_kind = "row"
        /\ ln_fields.count = 23 =>
              /\ ln_kind = "None"
              /\ DOMAIN error_files = {LineFileOfTask, error_collection_file_name("line", NoTaskId)}
              /\ error_files[LineFileOfTask][1][1] = "Line (parsed items)"
              /\ error_files[LineFileOfTask][1][2] = 23
              /\ error_files[error_collection_file_name("line", NoTaskId)][1][1] =
                    "Error during parsing of line"
        /\ ln_fields.count > 26 =>
              With(parse_s3_log_line(ln_raw_s3_log_line), LAMBDA parsed_log_line :
                IF parsed_log_line.ok /\ Len(parsed_log_line.tokens) \in {24, 25, 26}
                THEN /\ DOMAIN error_files \cap C14_ParsingDiagnosticFiles = {}
                     /\ (OperationIsRequested /\ ~IpIsExcluded) => ln_kind = "row"
                ELSE /\ ln_kind = "None"
                     /\ DOMAIN error_files \cap C14_ParsingDiagnosticFiles # {})

\* a line of 23 fields that would pass every validation and filter has been
\* dropped by the general reducer with the parsing diagnostic
C14_ShortLineDropped ==
    /\ LineDone /\ ln_reducer = "general" /\ ln_fields.count = 23
    /\ StatusBeginsWith2 /\ OperationIsRequested /\ ~IpIsExcluded /\ TimestampIsWellFormed
    /\ BytesSentIsCount /\ TimezoneIsUtc
    /\ ln_kind = "None"
    /\ error_collection_file_name("line", NoTaskId) \in DOMAIN error_files

\* a line of 26 fields that passes every validation and filter has been
\* returned as a row by the general reducer
C14_LongLineAccepted ==
    /\ LineDone /\ ln_reducer = "general" /\ ln_fields.count = 26
    /\ StatusBeginsWith2 /\ OperationIsRequested /\ ~IpIsExcluded /\ TimestampIsWellFormed
    /\ BytesSentIsCount /\ TimezoneIsUtc
    /\ ln_kind = "row" /\ ln_row = ExpectedRow /\ NoDiagnostics

(***************************************************************************)
(* C15: _get_full_log_line returns a 25-field record for a token list of   *)
(* 24 items (the access point ARN filled in as "-"), of 25 items (as it    *)
(* is) and of 26 items (its first 25).  The record is stated field by      *)
(* field from the line the tokens were read from.                          *)
(***************************************************************************)
C15_FullLogLine == get_full_log_line(parse_s3_log_line(ln_raw_s3_log_line).tokens)

C15_ExpectedFields(full_log_line) ==
    /\ Len(full_log_line) = 25
    /\ full_log_line[1] = Chars("o") /\ full_log_line[2] = Chars("b")
    /\ full_log_line[FieldTimestamp] = Chars(ln_fields.timestamp) \o <<SPACE>> \o Chars(ln_fields.timezone)
    /\ full_log_line[FieldIpAddress] = Chars(ln_fields.ip_address)
    /\ full_log_line[FieldOperation] = Chars(ln_fields.operation)
    /\ full_log_line[FieldObjectKey] = Chars(ln_fields.object_key)
    /\ full_log_line[FieldHttpStatusCode] = Chars(ln_fields.http_status_code)
    /\ full_log_line[FieldBytesSent] = Chars(ln_fields.bytes_sent)
    /\ full_log_line[23] = Chars("e")
    /\ full_log_line[24] = Chars("t")
    /\ full_log_line[FieldAccessPointArn] = (IF ln_fields.count = 24 THEN <<"-">> ELSE Chars("n"))

C15_NormalizesTo25Fields ==
    (LineDone /\ ln_reducer = "general" /\ C10_Tokenizes) => C15_ExpectedFields(C15_FullLogLine)

\* the general reducer has normalized a line of 24 items: the ARN is "-"
C15_ArnFilledIn ==
    /\ LineDone /\ ln_reducer = "general" /\ ln_fields.count = 24
    /\ Len(parse_s3_log_line(ln_raw_s3_log_line).tokens) = 24
    /\ Len(C15_FullLogLine) = 25
    /\ C15_FullLogLine[FieldAccessPointArn] = <<"-">>
    /\ C15_FullLogLine[24] = Chars("t")

(***************************************************************************)
(* C16: for a line with unescaped quotes inside its user agent, so that    *)
(* the first pass finds more than 26 items, the repair pass yields a token *)
(* list that normalizes to the 25-field form with every field outside the  *)
(* quoted blocks at its correct position, and the line is accepted.  The   *)
(* lines are those of EmbeddedQuoteFields that pass every filter, given to *)
(* the reducer that tokenizes.                                             *)
(***************************************************************************)
C16_EmbeddedQuoteLine ==
    /\ LineDone /\ ln_reducer = "general"
    /\ ln_fields.user_agent \in EmbeddedQuoteUserAgents
    /\ Len(S3_LOG_REGEX_findall(ln_raw_s3_log_line)) > 26
    /\ OperationIsRequested /\ ~IpIsExcluded

C16_FieldsOutsideQuotes(full_log_line) ==
    /\ Len(full_log_line) = 25
    /\ full_log_line[1] = Chars("o") /\ full_log_line[2] = Chars("b")
    /\ full_log_line[FieldTimestamp] = Chars(ln_fields.timestamp) \o <<SPACE>> \o Chars(ln_fields.timezone)
    /\ full_log_line[FieldIpAddress] = Chars(ln_fields.ip_address)
    /\ full_log_line[5] = Chars("-") /\ full_log_line[6] = Chars("r")
    /\ full_log_line[FieldOperation] = Chars(ln_fields.operation)
    /\ full_log_line[FieldObjectKey] = Chars(ln_fields.object_key)
    /\ full_log_line[FieldHttpStatusCode] = Chars(ln_fields.http_status_code)
    /\ full_log_line[11] = Chars("-")
    /\ full_log_line[FieldBytesSent] = Chars(ln_fields.bytes_sent)
    /\ SubSeq(full_log_line, 13, 15) = <<Chars("9"), Chars("8"), Chars("7")>>
    /\ SubSeq(full_log_line, 18, 25) =
          <<Chars("-"), Chars("h"), Chars("s"), Chars("c"), Chars("a"), Chars("e"), Chars("t"), Chars("n")>>

C16_EmbeddedQuoteRepaired ==
    C16_EmbeddedQuoteLine =>
        With(parse_s3_log_line(ln_raw_s3_log_line), LAMBDA parsed_log_line :
            /\ parsed_log_line.ok
            /\ C16_FieldsOutsideQuotes(get_full_log_line(parsed_log_line.tokens))
            /\ ln_kind = "row" /\ ln_row = ExpectedRow)

(***************************************************************************)
(* C17: on lines whose key begins with blobs/ or zarr/ the fast reducer    *)
(* and the general reducer with the DANDI handler agree line by line: the  *)
(* same row, or None from both; hence identical reduced files.  Stated of  *)
(* a call of the fast reducer and the general reducer's result on the same *)
(* arguments.                                                              *)
(***************************************************************************)
C17_GeneralOutcome ==
    reduce_raw_s3_log_line(ln_raw_s3_log_line, ln_operation_type, ln_excluded_ips_before, "dandi",
                           ln_task_id)

C17_FastMatchesGeneral ==
    (LineDone /\ ln_reducer = "fast" /\ KeyParentIsDandi) =>
        With(C17_GeneralOutcome, LAMBDA general :
            /\ ln_kind = general.kind
            /\ ln_row = general.row)

\* the same, of the lines the general reducer does not raise on and that are in
\* the standard layout: 25 fields, quoted request-URI, plain user agent
C17_FastMatchesGeneralOnStandardLines ==
    (LineDone /\ ln_reducer = "fast" /\ KeyParentIsDandi /\ ln_fields.count = 25
        /\ ln_fields.quoted_uri /\ C14_Convertible) =>
        With(C17_GeneralOutcome, LAMBDA general :
            /\ ln_kind = general.kind
            /\ ln_row = general.row)

(***************************************************************************)
(* C18: when a read of exactly B = floor(M/3) bytes at offset `off` holds  *)
(* no complete line (the only piece after splitting is non-empty),         *)
(* __next__ raises ValueError, its message names `off`, and no batch is    *)
(* returned: the batches and the offset are as they were.                  *)
(***************************************************************************)
C18_OversizeRead ==
    /\ rd_status # "off" /\ offset < total_file_size
    /\ Len(intermediate_bytes) = buffer_size_in_bytes
    /\ decode(intermediate_bytes).ok
    /\ Len(splitlines(decode(intermediate_bytes).s)) = 1
    /\ splitlines(decode(intermediate_bytes).s)[1] # <<>>

C18_OversizeLineRaises ==
    [][C18_OversizeRead =>
         /\ rd_status' = "ValueError"
         /\ rd_error_offset' = offset
         /\ UNCHANGED <<offset, rd_batches, rd_returned>>]_vars

\* a later read, after a batch was returned, has raised for an oversize line
C18_OversizeLineAfterBatch ==
    /\ C18_OversizeRead
    /\ rd_status = "ValueError" /\ rd_error_offset = offset
    /\ offset > 0 /\ rd_batches # <<>>

(***************************************************************************)
(* C19: iteration over any finite file terminates.  Every __next__ call    *)
(* that returns a batch strictly increases the offset; the offset never    *)
(* exceeds the file size; once the offset has reached the file size every  *)
(* later call raises StopIteration.  Termination is stated as a bound: the *)
(* number of batches returned so far never exceeds the offset, hence never *)
(* the file size, so a loop over the reader gets at most total_file_size   *)
(* batches before a call raises.                                           *)
(***************************************************************************)
C19_CallAdvancesOrStops ==
    /\ rd_batches' # rd_batches => offset' > offset
    /\ offset >= total_file_size =>
          (rd_status' = "StopIteration" /\ UNCHANGED <<offset, rd_batches, rd_returned>>)

C19_IterationTerminates ==
    /\ [](offset <= total_file_size /\ Len(rd_batches) <= offset)
    /\ [][C19_CallAdvancesOrStops]_vars

\* the file was read to its end in two batches or more
C19_ReadToEndInSeveralBatches ==
    /\ rd_status = "StopIteration"
    /\ offset = total_file_size
    /\ Len(rd_batches) >= 2

(***************************************************************************)
(* C20: every list returned by __next__ is non-empty, for every file       *)
(* content and every buffer size B = floor(M/3) >= 1.                      *)
(***************************************************************************)
C20_BatchesAreNonEmpty ==
    \A i \in 1 .. Len(rd_batches) : rd_batches[i] # <<>>

(***************************************************************************)
(* C21: when a B-byte read boundary falls inside a multi-byte UTF-8        *)
(* character, __next__ does not fail: the broken suffix stays in the last, *)
(* unreturned piece, the offset advances so that the whole character is    *)
(* read again, and iteration still yields the file's lines intact.  The    *)
(* files of ReaderFiles are valid UTF-8, so a decoding error can only come *)
(* from a read that cuts the two-byte character.                           *)
(***************************************************************************)
C21_ReadCutsCharacter ==
    /\ rd_status # "off" /\ offset < total_file_size
    /\ intermediate_bytes # <<>> /\ Last(intermediate_bytes) = LeadByte

C21_CutCharacterIsAccepted ==
    C21_ReadCutsCharacter => rd_status # "UnicodeDecodeError"

(***************************************************************************)
(* C22: len(BufferedTextReader) equals the number of __next__ calls that   *)
(* return a batch before StopIteration, for every file content and every   *)
(* buffer size for which iteration raises no error.  __len__ returns       *)
(* number_of_buffers.                                                      *)
(***************************************************************************)
C22_LenCountsBatches ==
    rd_status = "StopIteration" => number_of_buffers = Len(rd_batches)

(***************************************************************************)
(* C23: in a parallel batch each enumerated raw file is submitted as       *)
(* exactly one task, each submitted task is executed exactly once by some  *)
(* worker, and reduce_all_dandi_raw_s3_logs goes on past the pool only     *)
(* after every submitted task has finished.  While the pool runs, every    *)
(* enumerated day file is in exactly one place: waiting, running in one    *)
(* process, or finished.  The enumerated files are the *.log files whose   *)
(* stem is all digits.                                                     *)
(***************************************************************************)
C23_Enumerated == {day \in bt_raw_days : day.stem \in {"01", "02"}}
C23_Waiting == {bt_pending[i] : i \in DOMAIN bt_pending}
C23_Busy == {process \in DOMAIN bt_running : bt_running[process] # Idle}
C23_Running == {bt_running[process].day : process \in C23_Busy}

C23_EachTaskRunsOnce ==
    bt_maximum_number_of_workers > 1 =>
        /\ bt_pc = "parallel" =>
              /\ Cardinality(C23_Waiting) = Len(bt_pending)
              /\ Cardinality(C23_Running) = Cardinality(C23_Busy)
              /\ C23_Waiting \cup C23_Running \cup bt_called = C23_Enumerated
              /\ C23_Waiting \cap C23_Running = {}
              /\ C23_Waiting \cap bt_called = {}
              /\ C23_Running \cap bt_called = {}
        /\ bt_pc \in {"merge", "cleanup", "returned", "raised"} =>
              /\ bt_called = C23_Enumerated
              /\ bt_pending = <<>>
              /\ C23_Busy = {}

\* a parallel batch over two day files has returned, two tasks having run at
\* the same time on the way
C23_TwoTasksRanAndReturned ==
    /\ bt_maximum_number_of_workers = 2 /\ bt_pc = "returned"
    /\ Cardinality(C23_Enumerated) = 2
    /\ bt_called = C23_Enumerated

(***************************************************************************)
(* C24: a call of reduce_raw_s3_log that ends with an exception, raised by *)
(* the reader (a line longer than the buffer, undecodable bytes) or by a   *)
(* line reducer, leaves no reduced file: the file is opened only after the *)
(* last buffer has been reduced, so nothing marks the raw file as done and *)
(* the rows accepted before the exception are not on disk.                 *)
(***************************************************************************)
C24_TaskFailed == fl_pc = "raised"

C24_FailedTaskLeavesNoOutput ==
    C24_TaskFailed => (fl_reduced_file = AbsentFile /\ fl_io = <<>>)

\* the reader raised on an oversize line after rows of an earlier buffer were kept
C24_OversizeLineAfterAcceptedRows ==
    /\ C24_TaskFailed
    /\ rd_status = "ValueError"
    /\ fl_reduced_s3_log_lines # <<>>
    /\ fl_reduced_file = AbsentFile

(***************************************************************************)
(* C25: _collect_error only appends.  In every state of a batch, whatever  *)
(* the diagnostic files hold after the calls made so far, one more call    *)
(* with any task_id, or with none, leaves every other file as it           *)
(* is and makes the content of its own file the earlier content (nothing   *)
(* for a file that did not exist) followed by the message and two          *)
(* newlines; the name of that file contains the task_id when one is given  *)
(* and no task_id when none is given.  Every file written so far is a      *)
(* sequence of messages, each followed by its two newlines.                *)
(***************************************************************************)
C25_Calls == {Error(<<"message">>, "parallel", task_id) : task_id \in TaskIds \cup {NoTaskId}}
C25_ContentBefore(name) == IF name \in DOMAIN error_files THEN error_files[name] ELSE <<>>
C25_NameTokens(name) == {name[i] : i \in DOMAIN name}

C25_CollectErrorAppends ==
    /\ \A error \in C25_Calls :
         LET name == error_collection_file_name(error.error_type, error.task_id)
             after == collect_error(error_files, error)
         IN /\ DOMAIN after = DOMAIN error_files \cup {name}
            /\ \A other \in DOMAIN error_files : other # name => after[other] = error_files[other]
            /\ after[name] = C25_ContentBefore(name) \o <<error.message, "\n\n">>
            /\ error.task_id # NoTaskId => C25_NameTokens(name) \cap TaskIds = {error.task_id}
            /\ error.task_id = NoTaskId => C25_NameTokens(name) \cap (TaskIds \cup {NoTaskId}) = {}
    /\ \A name \in DOMAIN error_files :
         /\ Len(error_files[name]) % 2 = 0
         /\ Len(error_files[name]) > 0
         /\ \A i \in DOMAIN error_files[name] :
              (error_files[name][i] = "\n\n") <=> (i % 2 = 0)

\* two tasks failed under the same task_id: their file holds both messages
C25_TwoMessagesInOneFile ==
    \E name \in DOMAIN error_files :
        /\ Len(error_files[name]) = 4
        /\ error_files[name][1] # error_files[name][3]

(***************************************************************************)
(* C26: every diagnostic a line reducer writes for a task goes to a file   *)
(* whose name carries the task_id of that task, so that no file is shared  *)
(* between two tasks that run at the same time.                            *)
(***************************************************************************)
C26_DiagnosticsCarryTaskId ==
    LineDone => \A name \in DOMAIN error_files : ln_task_id \in C25_NameTokens(name)

(***************************************************************************)
(* C30: a line reducer leaves the caller's excluded_ips table as it was:   *)
(* the table has the same keys with the same values after the call as      *)
(* before it.                                                              *)
(***************************************************************************)
C30_ExcludedIpsUnchanged ==
    LineDone => ln_excluded_ips = ln_excluded_ips_before

(***************************************************************************)
(* C27: a call of bin_all_reduced_s3_logs_by_object_key that finds exactly *)
(* one of the two tracking files raises FileNotFoundError, and a call that *)
(* finds both but with different sets of paths raises ValueError; in both  *)
(* cases the call leaves the tracking files and the binned files as they   *)
(* were.                                                                   *)
(***************************************************************************)
C27_CallBegins == bn_calls' = bn_calls + 1
C27_FilesUntouched == UNCHANGED <<bn_started, bn_completed, bn_binned>>
C27_OneTrackingFile == bn_started.exists # bn_completed.exists
C27_TrackingFilesDisagree ==
    /\ bn_started.exists /\ bn_completed.exists
    /\ tracked_paths(bn_started) # tracked_paths(bn_completed)

C27_RaisesOnBrokenTracking ==
    [][C27_CallBegins =>
          /\ C27_OneTrackingFile => (bn_pc' = "FileNotFoundError" /\ C27_FilesUntouched)
          /\ C27_TrackingFilesDisagree => (bn_pc' = "ValueError" /\ C27_FilesUntouched)]_vars

\* a first call was interrupted between the two touches, a later call raised
C27_RaisedFileNotFound ==
    /\ bn_pc = "FileNotFoundError"
    /\ bn_started.exists /\ ~bn_completed.exists
    /\ bn_binned = <<>>

(***************************************************************************)
(* C28: once a call was interrupted after rows of a reduced file were      *)
(* appended to a binned file and before the reduced file was written to    *)
(* the completed file, no later call bins: every later call raises, and no *)
(* row of a reduced file is in the binned files more than once.            *)
(***************************************************************************)
C28_Occurrences(lines, line) == Cardinality({i \in DOMAIN lines : lines[i] = line})
C28_TimesBinned(row) ==
    LET RECURSIVE total(_)
        total(paths) == IF paths = {} THEN 0
                        ELSE LET path == CHOOSE q \in paths : TRUE
                             IN C28_Occurrences(bn_binned[path], binned_row(row)) + total(paths \ {path})
    IN total(DOMAIN bn_binned)
C28_RowsOf(reduced_s3_log_file) ==
    {bn_reduced[reduced_s3_log_file][i] : i \in DOMAIN bn_reduced[reduced_s3_log_file]}
C28_BeingBinned(reduced_s3_log_file) ==
    bn_pc = "binning" /\ bn_reduced_s3_log_file = reduced_s3_log_file
C28_InterruptedFiles ==
    {reduced_s3_log_file \in tracked_paths(bn_started) \ tracked_paths(bn_completed) :
        /\ ~C28_BeingBinned(reduced_s3_log_file)
        /\ \E row \in C28_RowsOf(reduced_s3_log_file) : C28_TimesBinned(row) > 0}

C28_NoBinningAfterInterruption ==
    /\ C28_InterruptedFiles # {} => bn_pc \in {"killed", "ValueError"}
    /\ \A reduced_s3_log_file \in DOMAIN bn_reduced :
         \A row \in C28_RowsOf(reduced_s3_log_file) : C28_TimesBinned(row) <= 1

\* two calls were made after the interruption and the last one raised
C28_LaterCallRaised ==
    /\ C28_InterruptedFiles # {}
    /\ bn_pc = "ValueError"
    /\ bn_calls = MaxCalls

(***************************************************************************)
(* C29: whenever a call has returned normally, the started and the         *)
(* completed file list the same paths, no path is listed as completed      *)
(* twice, every row of every reduced file listed as completed is exactly   *)
(* once in the binned file of its object key and in no other binned file,  *)
(* and every binned file has exactly one header line.                      *)
(***************************************************************************)
C29_EachCompletedRowBinnedOnce ==
    bn_pc = "returned" =>
        /\ tracked_paths(bn_started) = tracked_paths(bn_completed)
        /\ Len(bn_completed.content) = Cardinality(tracked_paths(bn_completed))
        /\ \A reduced_s3_log_file \in tracked_paths(bn_completed) :
             \A row \in C28_RowsOf(reduced_s3_log_file) :
                /\ binned_s3_log_file_path(row.object_key) \in DOMAIN bn_binned
                /\ C28_Occurrences(bn_binned[binned_s3_log_file_path(row.object_key)], binned_row(row)) = 1
                /\ C28_TimesBinned(row) = 1
        /\ \A path \in DOMAIN bn_binned :
             /\ C28_Occurrences(bn_binned[path], binned_header) = 1
             /\ Head(bn_binned[path]) = binned_header

====
